---- MODULE Spec2Model ----
(***************************************************************************)
(* BookingClient of yclients_mcp/client.py: the per-domain caches          *)
(* (sessions, partner credentials, user credentials, application           *)
(* descriptors), credential discovery (_ensure_partner_token), the request *)
(* path (_request, _headers, _auth_header), verify_sms_code,               *)
(* set_user_token, user_confirm_* and close(), run by asyncio tasks.       *)
(*                                                                         *)
(* One action is the code a task runs between two suspension points        *)
(* (await of a network call): asyncio is cooperative, so that code is      *)
(* atomic. Every network answer is chosen by the environment, anew on      *)
(* each fetch.                                                             *)
(***************************************************************************)
EXTENDS Integers, Sequences, FiniteSets, TLC

\* ----------------------------------------------------------------- bounds
\* number of asyncio tasks that call into the one BookingClient
NTasks == 2
\* number of session objects the client may construct in a run
MaxSessions == 3
\* largest count argument of search_companies
MaxCount == 2
\* largest max_pages argument of _search_companies_paginated
MaxPages == 2

\* time units per token period (1/per_sec s) and parts per token: the resolution
\* of the clock and of the bucket
Scale == 2
\* the longest observation window, in time units
MaxWindow == 4

Tasks == 1..NTasks

\* ------------------------------------------------------- program constants
\* RateLimiter(per_sec=5)
PerSec == 5
\* await asyncio.sleep(2) before the retry
RetrySleepSec == 2
\* a full bucket; also the time units in which an empty bucket refills
Cap == PerSec * Scale
\* the retry sleep in time units
RetrySleep == RetrySleepSec * PerSec * Scale

\* ------------------------------------------------------------ the universe
API == "api.yclients.com"
BOOT == "n864017.yclients.com"
TENANT == "n1.yclients.com"
Domains == {API, BOOT, TENANT}
\* the shared host and the bootstrap tenant: the domains of the concurrent runs
CoreDomains == {API, BOOT}

\* the process-level credential when one is configured
GlobalToken == "G"
\* credentials a page, bundle or chunk may embed
ScanTokens == {"T1", "T2"}
\* user credentials the platform issues (or the caller supplies) for a domain
UserTokensOf(d) == {<<d, "u1">>, <<d, "u2">>}
NoUser == <<>>
\* chunk file names a tenant build may use
ChunkNames == {"c1", "c2"}
\* the chunk names a tenant's files hold: href references of the page, names in
\* the main bundle, names inside a chunk
WideSite == [html |-> {"c1", "c2"}, main |-> {"c1", "c2"}, imports |-> {"c2", "c3"}]
NarrowSite == [html |-> {"c1"}, main |-> {"c1"}, imports |-> ChunkNames]
\* application descriptors a chunk may embed ("" : no descriptor pattern matched)
AppConfigs == {"env"}

NoDupSeqs(S) ==
  UNION {{s \in [1..n -> S] : \A i, j \in 1..n : i # j => s[i] # s[j]} :
         n \in 0..Cardinality(S)}

Perms(S) == {s \in NoDupSeqs(S) : Len(s) = Cardinality(S)}

Range(s) == {s[i] : i \in 1..Len(s)}

VARIABLES
  site,             \* the chunk names the tenants' files may hold (fixed in a run)
  partner_token,    \* BookingClient.partner_token ("" : not configured)
  partner_tokens,   \* _partner_tokens: dict in insertion order, <<domain, token>>
  user_tokens,      \* _user_tokens: domain -> user credential (NoUser: none)
  app_configs,      \* _app_configs: domain -> descriptor ("" : none)
  sessions,         \* _sessions: domain -> session object id (0: none)
  created,          \* the session objects constructed so far: id -> domain key
  pc,               \* per task: where it is suspended
  call,             \* per task: the operation it runs
  scan,             \* per task: the locals of _ensure_partner_token
  req,              \* per task: the HTTP request it awaits the answer of
  ret,              \* per task: verify_sms_code's outcome (the user credential
                    \* its response carried, whether it raised); close() raised
  closing,          \* per task: the iteration state of close()
  dirty,            \* per task: this call wrote _partner_tokens or _app_configs
  lastEnsured,      \* domain of the _ensure_partner_token call that returned last,
                    \* while no other task was running and no call started since
  closeCalled,      \* close() has been called
  tokens,           \* RateLimiter._tokens, in 1/Scale of a token
  sinceLast,        \* time.monotonic() - RateLimiter._last, in time units (capped
                    \* at the bucket size: min() forgets the rest)
  lockq,            \* RateLimiter._lock: the holder (head) and its FIFO waiters
  sleepLeft,        \* per task: time units left of the asyncio.sleep it is in
  window,           \* an observation window: time units elapsed and acquire
                    \* calls returned since it was opened
  attempt,          \* per task: the attempts of YClientsClient.request so far
  result,           \* per task: what the operation returned (or that it raised)
  opio,             \* the BookingClient operation called last, the answer to its
                    \* request and what it handed to its caller
  srch,             \* search_companies: the category tasks and the merged result
  pg,               \* _search_companies_paginated: the page loop and its result
  att,              \* _parse_attendances: its arguments and what it returned
  sms,              \* send_sms_code: the requests it has sent and its result
  bp,               \* the generic passthrough tool: _build_path and its outcome
  hd,               \* build_headers: its arguments and the header it returned
  cf,               \* YClientsConfig(): the environment and the outcome
  dv,               \* one scan of _ensure_partner_token over given tenant files:
                    \* the files, the fetches in order and the credential cached
  cb                \* the yclients_client_booking dispatcher: the call and its outcome

\* the state of RateLimiter and YClientsClient
\* the operation whose response is being processed, and the category scan
ext == <<pg, att, sms, bp, hd, cf, dv, cb>>

io == <<opio, srch, ext>>

aux == <<tokens, sinceLast, lockq, sleepLeft, window, attempt, result, io>>

\* the state of BookingClient and of the tasks
core == <<site, partner_token, partner_tokens, user_tokens, app_configs, sessions,
          created, pc, call, scan, req, ret, closing, dirty, lastEnsured,
          closeCalled>>

vars == <<core, aux>>

NoCall == [op |-> "", dom |-> "", seq |-> ""]
NoScan == [dom |-> "", sid |-> 0, paths |-> 0, hchunks |-> <<>>,
           queue |-> <<>>, tried |-> {}, seen |-> {}]
\* app: the application-identity and placeholder security headers it carries
NoReq == [dom |-> "", sid |-> 0, auth |-> <<>>, app |-> {}]
NoRet == [utok |-> NoUser, raised |-> FALSE]
NoClosing == [left |-> 0, size |-> 0]
NoWindow == [open |-> FALSE, t |-> 0, n |-> 0]
NoOutcome == [kind |-> "", status |-> 0, body |-> ""]

NoAttempt == [n |-> 0, hist |-> <<>>, first |-> NoOutcome, last |-> NoOutcome]
\* what an operation hands to its caller: it raised, or a value of type ty
\* ("dict", "list") with its "error" key true or not and the status it is
\* annotated with (-1: none)
\* _COMMON_BUSINESS_TYPES: one scan per category, in this order
COMMON_BUSINESS_TYPES == <<10, 1, 18, 32, 2, 48, 3, 35>>

ScanTasks == 1..Len(COMMON_BUSINESS_TYPES)

\* search_companies: its count argument, what each category task ended with
\* (st "pending", "exc": it raised, or "ok" with the company ids of the data it
\* returned), and the "data" and "count" of the result
Pending == [st |-> "pending", ids |-> <<>>]

NoSearch == [phase |-> "idle", limit |-> 0, results |-> [i \in ScanTasks |-> Pending],
             data |-> <<>>, count |-> 0]

NoResult == [raised |-> FALSE, ty |-> "", error |-> FALSE, sc |-> -1]

\* ------------------------------------------------- the insertion-ordered dict
Has(pt, d) == \E i \in 1..Len(pt) : pt[i][1] = d

Get(pt, d) ==
  IF Has(pt, d) THEN pt[CHOOSE i \in 1..Len(pt) : pt[i][1] = d][2] ELSE ""

Put(pt, d, v) ==
  IF Has(pt, d)
  THEN [i \in 1..Len(pt) |-> IF pt[i][1] = d THEN <<d, v>> ELSE pt[i]]
  ELSE Append(pt, <<d, v>>)

\* next(iter(self._partner_tokens.values()), "")
FirstValue(pt) == IF Len(pt) > 0 THEN pt[1][2] ELSE ""

\* chunks_from_html + chunks_from_main as it is
NoDedup(s) == s

\* list(dict.fromkeys(xs)): duplicates dropped, order of first occurrence kept
Dedup(s) ==
  LET F[i \in 0..Len(s)] ==
        IF i = 0 THEN <<>>
        ELSE IF \E j \in 1..(i - 1) : s[j] = s[i] THEN F[i - 1]
        ELSE Append(F[i - 1], s[i])
  IN F[Len(s)]

\* ------------------------------------------------------------ _get_session
GetSessionFresh(ss, cr, d) ==
  [ss |-> [ss EXCEPT ![d] = Len(cr) + 1], cr |-> Append(cr, d), sid |-> Len(cr) + 1]

GetSession(ss, cr, d) ==
  IF ss[d] # 0 THEN [ss |-> ss, cr |-> cr, sid |-> ss[d]]
  ELSE [ss |-> [ss EXCEPT ![d] = Len(cr) + 1], cr |-> Append(cr, d), sid |-> Len(cr) + 1]

\* the client can still construct the session GetSession would need
CanGetSession(ss, cr, d) == ss[d] # 0 \/ Len(cr) < MaxSessions

\* ------------------------------------------- _resolve_partner_token, _auth_header
ResolvePartnerToken(pt, d) == IF Get(pt, d) # "" THEN Get(pt, d) ELSE partner_token

AuthHeaderNoGuard(pt, ut, d) ==
  LET token == ResolvePartnerToken(pt, d)
  IN IF ut[d] # NoUser THEN <<"Bearer", token, "User", ut[d]>> ELSE <<"Bearer", token>>

AuthHeaderNoUser(pt, ut, d) ==
  LET token == ResolvePartnerToken(pt, d)
  IN IF token = "" THEN <<>> ELSE <<"Bearer", token>>

AuthHeaderAnyUser(pt, ut, d) ==
  LET token == ResolvePartnerToken(pt, d)
      any == IF \E e \in Domains : ut[e] # NoUser
             THEN ut[CHOOSE e \in Domains : ut[e] # NoUser] ELSE NoUser
  IN IF token = "" THEN <<>>
     ELSE IF any # NoUser THEN <<"Bearer", token, "User", any>>
     ELSE <<"Bearer", token>>

\* <<>> : no Authorization header (_headers adds the header only when non-empty)
AuthHeader(pt, ut, d) ==
  LET token == ResolvePartnerToken(pt, d)
  IN IF token = "" THEN <<>>
     ELSE IF ut[d] # NoUser THEN <<"Bearer", token, "User", ut[d]>>
     ELSE <<"Bearer", token>>

\* the descriptor of any tenant is used
AppHeadersAnyDomain(ac, d) ==
  IF \E e \in Domains : ac[e] # ""
  THEN {"X-brand-Application-Name", "X-brand-Application-Platform",
        "X-brand-Application-Version", "X-App-Validation-Token", "X-App-Signature"}
  ELSE {}

\* _headers: cfg = self._app_configs.get(domain); if cfg: the three
\* X-{brand}-Application-* headers and the two empty security headers
AppHeaders(ac, d) ==
  IF ac[d] # ""
  THEN {"X-brand-Application-Name", "X-brand-Application-Platform",
        "X-brand-Application-Version", "X-App-Validation-Token", "X-App-Signature"}
  ELSE {}

\* the Authorization header of user_confirm_start_check / check_captcha / check_code
UserConfirmAuth(pt) ==
  LET p == IF partner_token # "" THEN partner_token ELSE FirstValue(pt)
  IN IF p = "" THEN <<>> ELSE <<"Bearer", p>>

\* ------------------------------------- _ensure_partner_token up to its first await
\* [pt: the cache as the synchronous prefix leaves it, fetch: the domain whose page
\*  it goes on to fetch ("" : it returned)]
EnsureTenantScanAlways(pt, d) ==
  IF Has(pt, d) THEN [pt |-> pt, fetch |-> ""] ELSE [pt |-> pt, fetch |-> d]

EnsureTenantNoAdopt(pt, d) ==
  IF Has(pt, d) \/ partner_token # "" THEN [pt |-> pt, fetch |-> ""]
  ELSE [pt |-> pt, fetch |-> d]

EnsureTenant(pt, d) ==
  IF Has(pt, d) THEN [pt |-> pt, fetch |-> ""]
  ELSE IF partner_token # "" THEN [pt |-> Put(pt, d, partner_token), fetch |-> ""]
  ELSE [pt |-> pt, fetch |-> d]

EnsureEntryNoCacheCheck(pt, d) ==
  IF d = API
  THEN IF partner_token # "" THEN [pt |-> Put(pt, API, partner_token), fetch |-> ""]
       ELSE [pt |-> pt, fetch |-> BOOT]
  ELSE IF partner_token # "" THEN [pt |-> Put(pt, d, partner_token), fetch |-> ""]
  ELSE [pt |-> pt, fetch |-> d]

EnsureEntry(pt, d) ==
  IF Has(pt, d) THEN [pt |-> pt, fetch |-> ""]
  ELSE IF d = API
  THEN IF partner_token # "" THEN [pt |-> Put(pt, API, partner_token), fetch |-> ""]
       ELSE IF Len(pt) > 0 THEN [pt |-> Put(pt, API, FirstValue(pt)), fetch |-> ""]
       ELSE EnsureTenant(pt, BOOT)
  ELSE EnsureTenant(pt, d)

\* the bootstrap branch after the nested call returned: copy its result
CopyBootstrap(pt, d) ==
  IF d = API /\ Has(pt, BOOT) THEN Put(pt, API, Get(pt, BOOT)) ELSE pt

\* --------------------------------------------------------- network answers
\* A file is represented by what the scan reads in it; what it never looks at
\* (the chunk references of a page without main bundle, the imports of a file in
\* which a credential pattern matched) is left empty.
\* the booking page: fetch exception, status other than 200, 200 with an empty
\* body, or 200 with HTML (tok: the credential the patterns match in it, main:
\* it names a main-*.js bundle, chunks: its href="chunk-*.js" references)
HtmlPages ==
  {[kind |-> k, tok |-> "", main |-> FALSE, chunks |-> <<>>] :
     k \in {"exc", "non200", "empty"}}
  \cup {r \in [kind : {"html"}, tok : ScanTokens \cup {""}, main : BOOLEAN,
              chunks : NoDupSeqs(site.html)] :
          /\ r.tok # "" => ~r.main
          /\ ~r.main => r.chunks = <<>>}

\* the main bundle: fetch exception, or text (any status)
MainPages ==
  {[kind |-> "exc", tok |-> "", chunks |-> <<>>]}
  \cup {r \in [kind : {"js"}, tok : ScanTokens \cup {""},
              chunks : NoDupSeqs(site.main)] :
          r.tok # "" => r.chunks = <<>>}

\* a chunk: fetch exception, or text with the credential, the descriptor and the
\* chunk names it holds
ChunkPages ==
  {[kind |-> "exc", tok |-> "", cfg |-> "", imports |-> {}]}
  \cup {r \in [kind : {"js"}, tok : ScanTokens \cup {""}, cfg : AppConfigs \cup {""},
              imports : SUBSET site.imports] :
          /\ r.tok # "" => r.imports = {}
          /\ r.tok = "" => r.cfg = ""}

\* the answer to an API request: a transport failure or an HTTP response
Bodies == {"obj_top", "obj_data", "obj_none", "list", "text"}

ApiOutcomes(d) ==
  {[kind |-> k, status |-> 0, body |-> "", utok |-> NoUser] :
     k \in {"timeout", "connfail"}}
  \cup {r \in [kind : {"http"}, status : {200, 400}, body : Bodies,
              utok : UserTokensOf(d) \cup {NoUser}] :
          (r.utok # NoUser) <=> (r.body \in {"obj_top", "obj_data"})}

\* result.get("user_token") or (result.get("data") or {}).get("user_token")
ExtractUserTokenTopOnly(r) ==
  IF r.kind = "http" /\ r.body = "obj_top" THEN r.utok ELSE NoUser

ExtractUserToken(r) ==
  IF r.kind = "http" /\ r.body \in {"obj_top", "obj_data"} THEN r.utok ELSE NoUser

\* verify_sms_code calls .get on what _request returned: a JSON array passed
\* through (status < 400) and the string under "data" of a non-JSON body have none
VerifyRaises(r) ==
  r.kind = "http" /\ ((r.body = "list" /\ r.status < 400) \/ r.body = "text")

\* ------------------------------------------ responses and their processing
\* re.search(r"/user/confirm/([a-f0-9]{40,})", url): the shortest token matched
MinTokenLen == 40

\* A URL is described by what the pattern looks at: whether its path holds
\* /user/confirm/, and the token that follows it, made of hex lowercase
\* hexadecimal characters and then tail other characters; src tells the URLs of
\* the header payload ("H") from those of the body payload ("B").
NoUrl == [confirm |-> FALSE, hex |-> 0, tail |-> 0, src |-> ""]

Urls(src) ==
  {[confirm |-> FALSE, hex |-> 0, tail |-> 0, src |-> src]}
  \cup [confirm : {TRUE}, hex : {MinTokenLen - 1, MinTokenLen, MinTokenLen + 1},
        tail : {0, 1}, src : {src}]

\* a token is the characters it is made of and where it came from
NoTok == [hex |-> 0, tail |-> 0, src |-> ""]

\* the "token" member of user_confirm, when the platform gives one
DirectTok(src) == [hex |-> MinTokenLen, tail |-> 0, src |-> IF src = "H" THEN "HT" ELSE "BT"]

\* the token a confirmation URL carries: all that follows /user/confirm/
TokenIn(u) == [hex |-> u.hex, tail |-> u.tail, src |-> u.src]

\* the "key" member of recaptcha_v3
KeyOf(src) == IF src = "H" THEN "keyH" ELSE "keyB"

\* A security-level payload: absent, not parseable as JSON ("bad", header
\* only), the empty object, or an object with its recaptcha_v3.key,
\* user_confirm.url and user_confirm.token members ("" / NoUrl / NoTok: none).
NoPayload == [kind |-> "absent", key |-> "", url |-> NoUrl, token |-> NoTok]

Payloads(src) ==
  {[NoPayload EXCEPT !.kind = k] :
     k \in {"absent", "empty"} \cup (IF src = "H" THEN {"bad"} ELSE {})}
  \cup [kind : {"obj"}, key : {"", KeyOf(src)}, url : {NoUrl} \cup Urls(src),
        token : {NoTok, DirectTok(src)}]

\* a payload with every member, for the responses whose payload is not looked at
FullPayload(src) ==
  [kind |-> "obj", key |-> KeyOf(src),
   url |-> [confirm |-> TRUE, hex |-> MinTokenLen, tail |-> 0, src |-> src],
   token |-> DirectTok(src)]

OpStatuses == {200, 404, 412}

\* response bodies: not JSON, a JSON array (of objects), a JSON object without
\* the members below, with "services", with "data" (a non-empty array of
\* objects, or an object), with "errors" holding a security-level payload
OpBodies == {"text", "array", "obj", "obj_services", "data_list", "data_obj", "errs"}

NoResponse == [kind |-> "", status |-> 0, body |-> "", hdr |-> NoPayload, errs |-> NoPayload]

\* the answer to the HTTP request of an operation: an exception (timeout,
\* connection failure, another error) or a response with its status, body and
\* X-App-Security-Level header
OpResponses ==
  {[NoResponse EXCEPT !.kind = k] : k \in {"timeout", "connfail", "othererr"}}
  \cup {r \in [kind : {"http"}, status : OpStatuses, body : OpBodies,
               hdr : Payloads("H"), errs : Payloads("B")] :
          /\ r.errs.kind # "absent" <=> r.body = "errs"
          /\ r.status # 412 =>
               /\ r.hdr \in {NoPayload, FullPayload("H")}
               /\ r.errs \in {NoPayload, FullPayload("B")}}

\* A value handed around by the operations: its type, its "error", "message",
\* "_status_code" (-1: none), "data" ("none", "list", "obj", "str"), "services",
\* "_security_level" and errors["X-App-Security-Level"] members.
ErrorValue(hasMsg, status) ==
  [ty |-> "dict", error |-> TRUE, msg |-> hasMsg, sc |-> status, data |-> "none",
   services |-> FALSE, sec |-> NoPayload, errs |-> NoPayload]

\* response.json(), or {"data": response.text[:2000]} when the body is not JSON
Parsed(r) ==
  [ty |-> IF r.body = "array" THEN "list" ELSE "dict", error |-> FALSE, msg |-> FALSE,
   sc |-> -1,
   data |-> CASE r.body = "text" -> "str"
              [] r.body = "data_list" -> "list"
              [] r.body = "data_obj" -> "obj"
              [] OTHER -> "none",
   services |-> r.body = "obj_services", sec |-> NoPayload, errs |-> r.errs]

\* if response.status_code >= 400: annotate the dict, replace anything else
WithStatus(d, status) ==
  IF status < 400 THEN d
  ELSE IF d.ty = "dict" THEN [d EXCEPT !.sc = status]
  ELSE ErrorValue(FALSE, status)

\* the X-App-Security-Level header, when it is there and parses, is stored
WithSecurity(d, hdr) ==
  IF hdr.kind \in {"empty", "obj"} /\ d.ty = "dict" THEN [d EXCEPT !.sec = hdr] ELSE d

\* BookingClient._request, from the answer on: every exception is caught
RequestData(r) ==
  IF r.kind # "http" THEN ErrorValue(TRUE, -1)
  ELSE WithSecurity(WithStatus(Parsed(r), r.status), r.hdr)

\* What an operation hands to its caller: it raised, or a value with its type,
\* "error", "message", the status it is annotated with (-1: none), "success"
\* (a payload built by the operation), "requires_captcha" and the members of
\* the confirmation result.
NoOut ==
  [raised |-> FALSE, ty |-> "", error |-> FALSE, msg |-> FALSE, sc |-> -1,
   success |-> FALSE, captcha |-> FALSE, key |-> "", url |-> NoUrl, token |-> NoTok]

RaisedOut == [NoOut EXCEPT !.raised = TRUE]

\* return raw / return result
Returned(v) ==
  [NoOut EXCEPT !.ty = v.ty, !.error = v.error, !.msg = v.msg, !.sc = v.sc]

\* return {"success": True, ...}
Built == [NoOut EXCEPT !.ty = "dict", !.success = TRUE]

\* x.get(...) raises AttributeError when x is a list or a string
HasNoGet(v) == v.ty = "list" \/ v.data \in {"list", "str"}

\* get_company_booking_info: (result.get("data") or {}).get("main_group_id")
CompanyInfoOut(v) == IF HasNoGet(v) THEN RaisedOut ELSE Returned(v)

\* verify_sms_code: result.get("user_token") or (result.get("data") or {}).get(...)
VerifyOut(v) == IF HasNoGet(v) THEN RaisedOut ELSE Returned(v)

\* _parse_attendances
AttendancesOut(v) ==
  IF v.ty = "list" THEN RaisedOut
  ELSE IF v.data # "list" THEN Returned(v)
  ELSE Built

\* list_services
ListServicesOut(v) ==
  IF v.ty = "dict" /\ ~v.services THEN Returned(v) ELSE Built

\* list_staff, list_times: raw if isinstance(raw, list) else (raw.get("data") or []),
\* then s.get(...) for each element
ListOut(v) ==
  IF v.ty = "dict" /\ v.data \in {"obj", "str"} THEN RaisedOut ELSE Built

\* list_dates
ListDatesOut(v) == IF v.ty = "dict" THEN Built ELSE Returned(v)

\* the pattern's group: the hexadecimal run after /user/confirm/, any length
ExtractConfirmTokenAnyLength(u) ==
  IF u.confirm /\ u.hex >= 1 THEN [hex |-> u.hex, tail |-> 0, src |-> u.src] ELSE NoTok

\* m = re.search(r"/user/confirm/([a-f0-9]{40,})", url); m.group(1)
ExtractConfirmToken(u) ==
  IF u.confirm /\ u.hex >= MinTokenLen THEN [hex |-> u.hex, tail |-> 0, src |-> u.src]
  ELSE NoTok

\* result.get("_security_level") or {}, then the errors member when that is empty
SecurityOf(v) ==
  IF v.sec.kind = "obj" THEN v.sec
  ELSE IF v.errs.kind = "obj" THEN v.errs
  ELSE NoPayload

\* the result of book_record on 412
ConfirmationRequired(v) ==
  LET security == SecurityOf(v)
      tok == IF security.token # NoTok THEN security.token
             ELSE IF security.url # NoUrl THEN ExtractConfirmToken(security.url)
             ELSE NoTok
  IN [NoOut EXCEPT !.ty = "dict", !.error = TRUE, !.msg = TRUE, !.captcha = TRUE,
                   !.key = security.key, !.url = security.url, !.token = tok]

\* book_record without the 412 branch
BookRecordPassThrough(v) ==
  IF v.ty = "list" THEN RaisedOut ELSE Returned(v)

\* book_record, from the answer on
BookRecordOut(v) ==
  IF v.ty = "list" THEN RaisedOut
  ELSE IF v.sc = 412 THEN ConfirmationRequired(v)
  ELSE Returned(v)

\* user_confirm_start_check, user_confirm_check_captcha, user_confirm_check_code:
\* only TimeoutException and ConnectError are caught
ConfirmOut(r) ==
  IF r.kind \in {"timeout", "connfail"} THEN Returned(ErrorValue(TRUE, -1))
  ELSE IF r.kind = "othererr" THEN RaisedOut
  ELSE Returned(WithStatus(Parsed(r), r.status))

NoOp == [op |-> "", resp |-> NoResponse, out |-> NoOut]

\* the variables the operations below leave alone
opRest == <<core, tokens, sinceLast, lockq, sleepLeft, window, attempt, result, srch, ext>>

\* the operation name was called, its request was answered r and it handed o
\* to its caller
Called(name, r, o) == [op |-> name, resp |-> r, out |-> o]

GetCompanyBookingInfo ==
  /\ opio = NoOp
  /\ \E r \in OpResponses:
       /\ opio' = Called("get_company_booking_info", r, CompanyInfoOut(RequestData(r)))
       /\ UNCHANGED opRest

\* the answer to the second request is returned as it is
SendSmsCode ==
  /\ opio = NoOp
  /\ \E r \in OpResponses:
       /\ opio' = Called("send_sms_code", r, Returned(RequestData(r)))
       /\ UNCHANGED opRest

VerifySmsCode ==
  /\ opio = NoOp
  /\ \E r \in OpResponses:
       /\ opio' = Called("verify_sms_code", r, VerifyOut(RequestData(r)))
       /\ UNCHANGED opRest

GetUserAttendances ==
  /\ opio = NoOp
  /\ \E r \in OpResponses:
       /\ opio' = Called("get_user_attendances", r, AttendancesOut(RequestData(r)))
       /\ UNCHANGED opRest

SearchActivities ==
  /\ opio = NoOp
  /\ \E r \in OpResponses:
       /\ opio' = Called("search_activities", r, Returned(RequestData(r)))
       /\ UNCHANGED opRest

BookActivity ==
  /\ opio = NoOp
  /\ \E r \in OpResponses:
       /\ opio' = Called("book_activity", r, Returned(RequestData(r)))
       /\ UNCHANGED opRest

ListServices ==
  /\ opio = NoOp
  /\ \E r \in OpResponses:
       /\ opio' = Called("list_services", r, ListServicesOut(RequestData(r)))
       /\ UNCHANGED opRest

ListStaff ==
  /\ opio = NoOp
  /\ \E r \in OpResponses:
       /\ opio' = Called("list_staff", r, ListOut(RequestData(r)))
       /\ UNCHANGED opRest

ListDates ==
  /\ opio = NoOp
  /\ \E r \in OpResponses:
       /\ opio' = Called("list_dates", r, ListDatesOut(RequestData(r)))
       /\ UNCHANGED opRest

ListTimes ==
  /\ opio = NoOp
  /\ \E r \in OpResponses:
       /\ opio' = Called("list_times", r, ListOut(RequestData(r)))
       /\ UNCHANGED opRest

BookRecord ==
  /\ opio = NoOp
  /\ \E r \in OpResponses:
       /\ opio' = Called("book_record", r, BookRecordOut(RequestData(r)))
       /\ UNCHANGED opRest

UserConfirm ==
  /\ opio = NoOp
  /\ \E r \in OpResponses, name \in {"user_confirm_start_check", "user_confirm_check_captcha",
                                  "user_confirm_check_code"}:
       /\ opio' = Called(name, r, ConfirmOut(r))
       /\ UNCHANGED opRest

\* _search_companies_paginated(query_lower, count=limit, max_pages=maxp): the
\* pages fetched, the matches so far, and what it handed back; via: the caller
\* (search_companies with a filter, one of its category scans, or another),
\* gid, bt: the group_id and business_type_id search_companies was given,
\* cat: the business type of a category scan,
\* scans: the scans search_companies created, pages: the pages requested,
\* last: the last answer ("empty", "short", or "full": 200 companies)
NoPaged == [phase |-> "idle", limit |-> 0, maxp |-> 0, page |-> 0, matched |-> <<>>,
            raised |-> FALSE, count |-> 0, data |-> <<>>, via |-> "", gid |-> 0,
            bt |-> 0, cat |-> 0, scans |-> 0, pages |-> <<>>, last |-> ""]
\* _parse_attendances(raw, date_from, date_to): raw's "data" and "included", the
\* bounds (0: not given), and the "records" and "total" of what it returned
NoAtt == [phase |-> "idle", data |-> <<>>, inc |-> {}, from |-> 0, to |-> 0,
          records |-> <<>>, total |-> 0]
\* send_sms_code: the domain it was called with, the API requests it has sent,
\* the answers to them and what it returned
NoSms == [phase |-> "idle", dom |-> "", log |-> <<>>, chan |-> NoResponse,
          code |-> NoResponse, out |-> NoOut]
\* a tool dispatcher (yclients_auth and the like): the operation and params it
\* was called with, the path of the request it sent, and what it returned
NoPath == [phase |-> "idle", op |-> "", params |-> <<>>, sent |-> FALSE, path |-> <<>>,
           error |-> FALSE, message |-> <<>>]
\* build_headers: its needs_user_token argument and the Authorization header
\* it returned (the words of the header value)
NoHeaders == [phase |-> "idle", needs |-> FALSE, auth |-> <<>>]

\* an environment variable that is not set
Unset == "<unset>"

\* YClientsConfig(): the environment it read, whether it raised or logged the
\* warning, and its attributes
NoConfig == [phase |-> "idle", env |-> [partner |-> Unset, user |-> Unset, base |-> Unset],
             raised |-> FALSE, warned |-> FALSE,
             partner_token |-> "", user_token |-> "", base_url |-> ""]

\* ------------------------------------------------------------------- Init
\* the files of a tenant: how /company/{id} and / answer ("ok": status 200 with
\* the page), what the page holds (a credential, the main-*.js script tag, chunk
\* hrefs), the main bundle and the chunks
NoFile == [kind |-> "js", tok |-> FALSE, imports |-> {}]
NoFixture ==
  [hint |-> FALSE, company |-> "exc", root |-> "exc",
   html |-> [tok |-> FALSE, main |-> FALSE, chunks |-> <<>>],
   mainjs |-> [kind |-> "js", tok |-> FALSE, chunks |-> <<>>],
   files |-> [c \in {"c1", "c2", "c3", "c4"} |-> NoFile]]

NoDiscovery == [phase |-> "idle", fx |-> NoFixture, log |-> <<>>, cached |-> ""]

NoBooking == [phase |-> "idle", op |-> "", present |-> {}, numeric |-> TRUE,
              calls |-> <<>>, error |-> FALSE, message |-> "", raised |-> FALSE]

\* the state after construction, for the tenant files st
InitWith(st) ==
  /\ site = st
  /\ partner_token \in {"", GlobalToken}
  /\ partner_tokens = <<>>
  /\ user_tokens = [d \in Domains |-> NoUser]
  /\ app_configs = [d \in Domains |-> ""]
  /\ sessions = [d \in Domains |-> 0]
  /\ created = <<>>
  /\ pc = [t \in Tasks |-> "idle"]
  /\ call = [t \in Tasks |-> NoCall]
  /\ scan = [t \in Tasks |-> NoScan]
  /\ req = [t \in Tasks |-> NoReq]
  /\ ret = [t \in Tasks |-> NoRet]
  /\ closing = [t \in Tasks |-> NoClosing]
  /\ dirty = [t \in Tasks |-> FALSE]
  /\ lastEnsured = ""
  /\ closeCalled = FALSE
  /\ tokens = Cap
  /\ sinceLast = 0
  /\ lockq = <<>>
  /\ sleepLeft = [t \in Tasks |-> 0]
  /\ window = NoWindow
  /\ attempt = [t \in Tasks |-> NoAttempt]
  /\ result = [t \in Tasks |-> NoResult]
  /\ opio = NoOp
  /\ srch = NoSearch
  /\ pg = NoPaged
  /\ att = NoAtt
  /\ sms = NoSms
  /\ bp = NoPath
  /\ hd = NoHeaders
  /\ cf = NoConfig
  /\ dv = NoDiscovery
  /\ cb = NoBooking

Init == InitWith(NarrowSite)

\* ------------------------------------------- the end of _ensure_partner_token
\* _ensure_partner_token of call c returned with the caches pt, ac. The direct
\* call is over; _request goes on without suspending: _get_session, _headers,
\* session.request (the await).
AfterEnsure(t, c, pt, ac, ss, cr, d0, le) ==
  /\ partner_tokens' = pt
  /\ app_configs' = ac
  /\ call' = [call EXCEPT ![t] = c]
  /\ scan' = [scan EXCEPT ![t] = NoScan]
  /\ dirty' = [dirty EXCEPT ![t] =
                  c.op = "verify" /\ (d0 \/ pt # partner_tokens \/ ac # app_configs)]
  /\ IF c.op = "ensure"
     THEN /\ pc' = [pc EXCEPT ![t] = "done"]
          /\ sessions' = ss
          /\ created' = cr
          /\ req' = [req EXCEPT ![t] = NoReq]
          /\ lastEnsured' = IF \A u \in Tasks \ {t} : pc[u] = "idle" THEN c.dom ELSE ""
     ELSE /\ CanGetSession(ss, cr, c.dom)
          /\ LET g == GetSession(ss, cr, c.dom)
             IN /\ sessions' = g.ss
                /\ created' = g.cr
                /\ req' = [req EXCEPT ![t] =
                             [dom |-> c.dom, sid |-> g.sid,
                              auth |-> AuthHeader(pt, user_tokens, c.dom),
                              app |-> AppHeaders(ac, c.dom)]]
          /\ pc' = [pc EXCEPT ![t] = "resp"]
          /\ lastEnsured' = le
  /\ ret' = [ret EXCEPT ![t] = NoRet]
  /\ UNCHANGED <<aux, site, partner_token, user_tokens, closing, closeCalled>>

\* the scan protocol starts: session = self._get_session(domain), first page fetch
StartScan(t, c, h, sd) ==
  /\ CanGetSession(sessions, created, sd)
  /\ LET g == GetSession(sessions, created, sd)
         hint == IF sd # c.dom THEN TRUE ELSE h
     IN /\ sessions' = g.ss
        /\ created' = g.cr
        /\ scan' = [scan EXCEPT ![t] =
                      [NoScan EXCEPT !.dom = sd, !.sid = g.sid,
                                     !.paths = IF hint THEN 1 ELSE 0]]
  /\ pc' = [pc EXCEPT ![t] = "html"]
  /\ call' = [call EXCEPT ![t] = c]
  /\ dirty' = [dirty EXCEPT ![t] = FALSE]
  /\ ret' = [ret EXCEPT ![t] = NoRet]
  /\ lastEnsured' = ""
  /\ UNCHANGED <<aux, site, partner_token, partner_tokens, user_tokens, app_configs, req,
                 closing, closeCalled>>

StartEnsure(t, c, h) ==
  LET e == EnsureEntry(partner_tokens, c.dom)
  IN IF e.fetch = ""
     THEN AfterEnsure(t, c, e.pt, app_configs, sessions, created, FALSE, "")
     ELSE StartScan(t, c, h, e.fetch)

\* the scan of task t is over with the caches pt, ac
ScanReturn(t, pt, ac) ==
  AfterEnsure(t, call[t], CopyBootstrap(pt, call[t].dom), ac, sessions, created,
              dirty[t], lastEnsured)

\* --------------------------------------------------------------- operations
\* how this call of _ensure_partner_token(d) follows the previous one: "again_*"
\* when the call that returned last was for d too and nothing else is running
\* (cached / uncached: d has a cached credential when the call starts)
EnsureSeq(t, d) ==
  IF lastEnsured = d /\ \A u \in Tasks \ {t} : pc[u] = "idle"
  THEN IF Has(partner_tokens, d) THEN "again_cached" ELSE "again_uncached"
  ELSE "first"

\* await client._ensure_partner_token(d, company_id)
CallEnsure(t, D) ==
  /\ pc[t] = "idle"
  /\ \E d \in D, h \in BOOLEAN :
       StartEnsure(t, [op |-> "ensure", dom |-> d, seq |-> EnsureSeq(t, d)], h)

\* an operation that returns what _request returns (book_activity,
\* search_activities, a page of _search_companies_paginated); h: the path holds
\* a company id of four or more digits
CallRequest(t, D) ==
  /\ pc[t] = "idle"
  /\ \E d \in D, h \in BOOLEAN :
       StartEnsure(t, [op |-> "request", dom |-> d, seq |-> ""], h)

\* verify_sms_code: POST /api/v1/user/auth (no company id in the path)
CallVerify(t, D) ==
  /\ pc[t] = "idle"
  /\ \E d \in D :
       StartEnsure(t, [op |-> "verify", dom |-> d, seq |-> ""], FALSE)

\* ------------------------------------------------------- the scan protocol
\* step 1: the answer to a page fetch (/company/{id} first when there is a hint,
\* then /); the HTML is scanned, and main-*.js is fetched when nothing matched
HtmlResp(t) ==
  /\ pc[t] = "html"
  /\ \E r \in HtmlPages :
       IF r.kind \in {"exc", "non200"}
       THEN IF scan[t].paths > 0
            THEN /\ scan' = [scan EXCEPT ![t].paths = @ - 1]
                 /\ UNCHANGED <<aux, site, partner_token, partner_tokens, user_tokens,
                                app_configs, sessions, created, pc, call, req, ret,
                                closing, dirty, lastEnsured, closeCalled>>
            ELSE ScanReturn(t, partner_tokens, app_configs)
       ELSE IF r.kind = "empty"
       THEN ScanReturn(t, partner_tokens, app_configs)
       ELSE IF r.tok # ""
       THEN ScanReturn(t, Put(partner_tokens, scan[t].dom, r.tok), app_configs)
       ELSE IF ~r.main
       THEN ScanReturn(t, partner_tokens, app_configs)
       ELSE /\ pc' = [pc EXCEPT ![t] = "main"]
            /\ scan' = [scan EXCEPT ![t].paths = 0, ![t].hchunks = r.chunks]
            /\ UNCHANGED <<aux, site, partner_token, partner_tokens, user_tokens, app_configs,
                           sessions, created, call, req, ret, closing, dirty,
                           lastEnsured, closeCalled>>

\* steps 2-3: the answer to the main bundle fetch; the candidate chunks are the
\* HTML's references followed by the bundle's chunk names, duplicates dropped
MainResp(t) ==
  /\ pc[t] = "main"
  /\ \E r \in MainPages :
       IF r.kind = "exc"
       THEN ScanReturn(t, partner_tokens, app_configs)
       ELSE IF r.tok # ""
       THEN ScanReturn(t, Put(partner_tokens, scan[t].dom, r.tok), app_configs)
       ELSE LET all == Dedup(scan[t].hchunks \o r.chunks)
            IN IF all = <<>>
               THEN ScanReturn(t, partner_tokens, app_configs)
               ELSE /\ pc' = [pc EXCEPT ![t] = "chunk"]
                    /\ scan' = [scan EXCEPT ![t].hchunks = <<>>, ![t].queue = all,
                                            ![t].tried = Range(all)]
                    /\ UNCHANGED <<aux, site, partner_token, partner_tokens, user_tokens,
                                   app_configs, sessions, created, call, req, ret,
                                   closing, dirty, lastEnsured, closeCalled>>

\* steps 4-5: the answer to the fetch of Head(queue), a direct candidate
\* (pc = "chunk") or a transitive import (pc = "trans"): scan_chunk and the loop
\* around it. The transitive pass iterates the set seen_transitive - set(all_chunks)
\* in an order the hash seed decides.
ChunkResp(t) ==
  /\ pc[t] \in {"chunk", "trans"}
  /\ \E r \in ChunkPages :
       LET sd == scan[t].dom
           rest == Tail(scan[t].queue)
           seen2 == IF r.kind = "js" THEN scan[t].seen \cup r.imports ELSE scan[t].seen
           pending == seen2 \ scan[t].tried
       IN IF r.kind = "js" /\ r.tok # ""
          THEN ScanReturn(t, Put(partner_tokens, sd, r.tok),
                          IF app_configs[sd] = "" /\ r.cfg # ""
                          THEN [app_configs EXCEPT ![sd] = r.cfg] ELSE app_configs)
          ELSE IF rest # <<>>
          THEN /\ scan' = [scan EXCEPT ![t].queue = rest,
                                       ![t].seen = IF pc[t] = "chunk" THEN seen2 ELSE {}]
               /\ UNCHANGED <<aux, site, partner_token, partner_tokens, user_tokens,
                              app_configs, sessions, created, pc, call, req, ret,
                              closing, dirty, lastEnsured, closeCalled>>
          ELSE IF pc[t] = "chunk" /\ pending # {}
          THEN /\ \E order \in Perms(pending) :
                    scan' = [scan EXCEPT ![t].queue = order, ![t].seen = {},
                                         ![t].tried = {}]
               /\ pc' = [pc EXCEPT ![t] = "trans"]
               /\ UNCHANGED <<aux, site, partner_token, partner_tokens, user_tokens,
                              app_configs, sessions, created, call, req, ret,
                              closing, dirty, lastEnsured, closeCalled>>
          ELSE ScanReturn(t, partner_tokens, app_configs)

\* the answers that differ for the client: verify_sms_code reads the body; the
\* other operations hand the result (or the exception) to their caller unread
AnswersOf(c) ==
  IF c.op = "verify" THEN ApiOutcomes(c.dom)
  ELSE {r \in ApiOutcomes(c.dom) : r.kind = "timeout" \/ r.body = "obj_none"}

\* ----------------------------------------------------- the answer of _request
\* the operation returns; verify_sms_code stores the user credential it finds
ApiResp(t) ==
  /\ pc[t] = "resp"
  /\ \E r \in AnswersOf(call[t]) :
       LET user_token == ExtractUserToken(r)
       IN /\ IF call[t].op = "verify" /\ VerifyRaises(r)
             THEN /\ ret' = [ret EXCEPT ![t] = [utok |-> r.utok, raised |-> TRUE]]
                  /\ UNCHANGED user_tokens
             ELSE /\ ret' = [ret EXCEPT ![t] =
                               IF call[t].op = "verify"
                               THEN [utok |-> r.utok, raised |-> FALSE] ELSE NoRet]
                  /\ user_tokens' =
                       IF call[t].op = "verify" /\ user_token # NoUser
                       THEN [user_tokens EXCEPT ![call[t].dom] = user_token]
                       ELSE user_tokens
  /\ pc' = [pc EXCEPT ![t] = "done"]
  /\ req' = [req EXCEPT ![t] = NoReq]
  /\ UNCHANGED <<aux, site, partner_token, partner_tokens, app_configs, sessions, created,
                 call, scan, closing, dirty, lastEnsured, closeCalled>>

\* the credential cached for the shared host, whatever the domain
UserTokenOfSharedHost(ut, d) == ut[API]

\* self._user_tokens.get(domain): NoUser stands for None
UserTokenOf(ut, d) == ut[d]

\* get_user_token(d): synchronous
GetUserToken(t, D) ==
  /\ pc[t] = "idle"
  /\ \E d \in D :
       /\ call' = [call EXCEPT ![t] = [op |-> "get_user_token", dom |-> d, seq |-> ""]]
       /\ ret' = [ret EXCEPT ![t] = [utok |-> UserTokenOf(user_tokens, d),
                                      raised |-> FALSE]]
  /\ pc' = [pc EXCEPT ![t] = "done"]
  /\ dirty' = [dirty EXCEPT ![t] = FALSE]
  /\ lastEnsured' = ""
  /\ UNCHANGED <<aux, site, partner_token, partner_tokens, user_tokens, app_configs,
                 sessions, created, scan, req, closing, closeCalled>>

\* set_user_token(d, u): synchronous
SetUserToken(t, D) ==
  /\ pc[t] = "idle"
  /\ \E d \in D : \E u \in UserTokensOf(d) :
       /\ user_tokens' = [user_tokens EXCEPT ![d] = u]
       /\ call' = [call EXCEPT ![t] = [op |-> "set_user_token", dom |-> d, seq |-> ""]]
  /\ pc' = [pc EXCEPT ![t] = "done"]
  /\ dirty' = [dirty EXCEPT ![t] = FALSE]
  /\ lastEnsured' = ""
  /\ UNCHANGED <<aux, site, partner_token, partner_tokens, app_configs, sessions, created,
                 scan, req, ret, closing, closeCalled>>

\* user_confirm_start_check / check_captcha / check_code: one POST to the shared
\* host through a throw-away httpx client (session id 0: not of _sessions)
\* the confirmation requests go to the tenant subdomain
ConfirmHostTenant == TENANT

\* url = f"https://api.yclients.com/api/v1/user/confirm/token/{token}/..."
ConfirmHost == API

CallConfirm(t) ==
  /\ pc[t] = "idle"
  /\ call' = [call EXCEPT ![t] = [op |-> "confirm", dom |-> ConfirmHost, seq |-> ""]]
  /\ req' = [req EXCEPT ![t] = [dom |-> ConfirmHost, sid |-> 0,
                                auth |-> UserConfirmAuth(partner_tokens), app |-> {}]]
  /\ pc' = [pc EXCEPT ![t] = "uc"]
  /\ dirty' = [dirty EXCEPT ![t] = FALSE]
  /\ lastEnsured' = ""
  /\ UNCHANGED <<aux, site, partner_token, partner_tokens, user_tokens, app_configs, sessions,
                 created, scan, ret, closing, closeCalled>>

ConfirmResp(t) ==
  /\ pc[t] = "uc"
  /\ ret' = [ret EXCEPT ![t] = NoRet]
  /\ pc' = [pc EXCEPT ![t] = "done"]
  /\ req' = [req EXCEPT ![t] = NoReq]
  /\ UNCHANGED <<aux, site, partner_token, partner_tokens, user_tokens, app_configs, sessions,
                 created, call, scan, closing, dirty, lastEnsured, closeCalled>>

\* ------------------------------------------------------------------ close()
SessionCount(ss) == Cardinality({d \in Domains : ss[d] # 0})

\* close(): for session in self._sessions.values(): await session.close()
CloseStart(t) ==
  /\ pc[t] = "idle"
  /\ call' = [call EXCEPT ![t] = [op |-> "close", dom |-> "", seq |-> ""]]
  /\ closeCalled' = TRUE
  /\ dirty' = [dirty EXCEPT ![t] = FALSE]
  /\ lastEnsured' = ""
  /\ IF SessionCount(sessions) = 0
     THEN /\ pc' = [pc EXCEPT ![t] = "done"]
          /\ UNCHANGED closing
     ELSE /\ pc' = [pc EXCEPT ![t] = "closing"]
          /\ closing' = [closing EXCEPT ![t] =
                           [left |-> SessionCount(sessions) - 1,
                            size |-> SessionCount(sessions)]]
  /\ UNCHANGED <<aux, site, partner_token, partner_tokens, user_tokens, app_configs, sessions,
                 created, scan, req, ret>>

\* a session.close() returned: the dict iterator raises RuntimeError when the dict
\* changed size meanwhile; after the last session, self._sessions.clear()
CloseStep(t) ==
  /\ pc[t] = "closing"
  /\ IF SessionCount(sessions) # closing[t].size
     THEN /\ pc' = [pc EXCEPT ![t] = "done"]
          /\ ret' = [ret EXCEPT ![t] = [utok |-> NoUser, raised |-> TRUE]]
          /\ closing' = [closing EXCEPT ![t] = NoClosing]
          /\ UNCHANGED sessions
     ELSE IF closing[t].left > 0
     THEN /\ closing' = [closing EXCEPT ![t].left = @ - 1]
          /\ UNCHANGED <<pc, ret, sessions>>
     ELSE /\ sessions' = [d \in Domains |-> 0]
          /\ pc' = [pc EXCEPT ![t] = "done"]
          /\ closing' = [closing EXCEPT ![t] = NoClosing]
          /\ UNCHANGED ret
  /\ UNCHANGED <<aux, site, partner_token, partner_tokens, user_tokens, app_configs, created,
                 call, scan, req, dirty, lastEnsured, closeCalled>>

\* the caller takes the result; the task is free for the next operation
Return(t) ==
  /\ pc[t] = "done"
  /\ pc' = [pc EXCEPT ![t] = "idle"]
  /\ call' = [call EXCEPT ![t] = NoCall]
  /\ ret' = [ret EXCEPT ![t] = NoRet]
  /\ dirty' = [dirty EXCEPT ![t] = FALSE]
  /\ attempt' = [attempt EXCEPT ![t] = NoAttempt]
  /\ result' = [result EXCEPT ![t] = NoResult]
  /\ UNCHANGED <<tokens, sinceLast, lockq, sleepLeft, window, io>>
  /\ UNCHANGED <<site, partner_token, partner_tokens, user_tokens, app_configs, sessions,
                 created, scan, req, closing, lastEnsured, closeCalled>>

\* ---------------------------------------------------------- RateLimiter
\* Time is counted in units of 1/(PerSec * Scale) s and tokens in 1/Scale of a
\* token, so that the bucket gains one part per time unit.
\* the variables of BookingClient and the tasks other than pc and call
coreRest == <<site, partner_token, partner_tokens, user_tokens, app_configs, sessions,
              created, scan, req, ret, closing, dirty, lastEnsured, closeCalled, io>>

Min(a, b) == IF a <= b THEN a ELSE b

\* the refill without the cap
RefillUncapped(tok, el) == tok + el

\* min(self._per_sec, self._tokens + elapsed * self._per_sec)
Refill(tok, el) == Min(Cap, tok + el)

\* wait = (1 - self._tokens) / self._per_sec, in time units
WaitForFullPeriod(tok) == Scale

WaitFor(tok) == Scale - tok

\* acquire() of call c returned to task t. YClientsClient.request goes on without
\* suspending: build_headers, self._http.request (the await).
Acquired(t, c) ==
  /\ window' = IF window.open THEN [window EXCEPT !.n = @ + 1] ELSE window
  /\ IF c.op = "rest"
     THEN /\ pc' = [pc EXCEPT ![t] = "rsend"]
          /\ attempt' = [attempt EXCEPT ![t].n = @ + 1,
                                         ![t].hist = @ \o <<"acquire", "send">>]
     ELSE /\ pc' = [pc EXCEPT ![t] = "done"]
          /\ UNCHANGED attempt

\* task t, head of the lock queue q, runs the body of acquire() up to its sleep
\* or to its end
Enter(t, q, c) ==
  LET found == Refill(tokens, sinceLast)
  IN /\ sinceLast' = 0
     /\ IF found < Scale
        THEN /\ tokens' = found
             /\ sleepLeft' = [sleepLeft EXCEPT ![t] = WaitFor(found)]
             /\ lockq' = q
             /\ pc' = [pc EXCEPT ![t] = "lsleep"]
             /\ UNCHANGED <<window, attempt>>
        ELSE /\ tokens' = found - Scale
             /\ lockq' = Tail(q)
             /\ Acquired(t, c)
             /\ UNCHANGED sleepLeft

\* await self._limiter.acquire(): a free lock is taken without suspending
StartAcquire(t, c) ==
  /\ call' = [call EXCEPT ![t] = c]
  /\ IF lockq = <<>>
     THEN Enter(t, <<t>>, c)
     ELSE /\ lockq' = Append(lockq, t)
          /\ pc' = [pc EXCEPT ![t] = "lock"]
          /\ UNCHANGED <<tokens, sinceLast, sleepLeft, window, attempt>>

\* a task calls acquire() of the limiter
CallAcquire(t) ==
  /\ pc[t] = "idle"
  /\ StartAcquire(t, [op |-> "acquire", dom |-> "", seq |-> ""])
  /\ UNCHANGED <<coreRest, result>>

\* the lock was released to its first waiter
LockGranted(t) ==
  /\ pc[t] = "lock"
  /\ lockq # <<>> /\ Head(lockq) = t
  /\ Enter(t, lockq, call[t])
  /\ UNCHANGED <<coreRest, call, result>>

\* asyncio.sleep(wait) is over: self._tokens = 0, the lock is released
LimiterWake(t) ==
  /\ pc[t] = "lsleep"
  /\ sleepLeft[t] = 0
  /\ tokens' = 0
  /\ lockq' = Tail(lockq)
  /\ Acquired(t, call[t])
  /\ UNCHANGED <<coreRest, call, result, sinceLast, sleepLeft>>

\* the tasks asleep
Sleeping == {t \in Tasks : pc[t] \in {"lsleep", "rsleep"}}

\* one time unit passes; a sleep that is over ends before more time passes
Tick ==
  /\ \A t \in Sleeping : sleepLeft[t] > 0
  /\ sinceLast' = Min(Cap, sinceLast + 1)
  /\ sleepLeft' = [t \in Tasks |-> IF t \in Sleeping THEN sleepLeft[t] - 1 ELSE 0]
  /\ window' = IF ~window.open THEN window
                ELSE IF window.t = MaxWindow THEN NoWindow
                ELSE [window EXCEPT !.t = @ + 1]
  /\ UNCHANGED <<core, tokens, lockq, attempt, result, io>>

\* an observation window starts, in any state of the limiter
OpenWindow ==
  /\ ~window.open
  /\ window' = [open |-> TRUE, t |-> 0, n |-> 0]
  /\ UNCHANGED <<core, tokens, sinceLast, lockq, sleepLeft, attempt, result, io>>

\* ------------------------------------------------- YClientsClient.request
\* the answer to self._http.request: httpx.TimeoutException, httpx.ConnectError,
\* another httpx.HTTPError, or a response
RestStatuses == {200, 404, 429}

RestOutcomes ==
  {[kind |-> k, status |-> 0, body |-> ""] : k \in {"timeout", "connfail", "othererr"}}
  \cup {r \in [kind : {"http"}, status : RestStatuses, body : {"obj", "array", "text"}] :
          r.status >= 400 => r.body = "obj"}

\* {"error": True, "status_code": 0, "message": ...}
RestFailure == [raised |-> FALSE, ty |-> "dict", error |-> TRUE, sc |-> 0]

\* the exception leaves the operation
Raised == [raised |-> TRUE, ty |-> "", error |-> FALSE, sc |-> -1]

\* what request() returns for the response it ends with
RestResult(r) ==
  IF r.status >= 400 THEN [raised |-> FALSE, ty |-> "dict", error |-> TRUE, sc |-> r.status]
  ELSE [raised |-> FALSE, ty |-> IF r.body = "array" THEN "list" ELSE "dict",
        error |-> FALSE, sc |-> -1]

\* if response.status_code == 429
RetryOnAnyError(status) == status >= 400

RetryOn(status) == status = 429

\* attempt n of request() is preceded by await self._limiter.acquire()
AcquireFirstAttemptOnly(n) == n = 1

AcquireBeforeAttempt(n) == TRUE

\* request(method, path)
CallRest(t) ==
  /\ pc[t] = "idle"
  /\ LET c == [op |-> "rest", dom |-> API, seq |-> ""]
     IN IF AcquireBeforeAttempt(1)
        THEN StartAcquire(t, c)
        ELSE /\ call' = [call EXCEPT ![t] = c]
             /\ pc' = [pc EXCEPT ![t] = "rsend"]
             /\ attempt' = [attempt EXCEPT ![t].n = @ + 1, ![t].hist = Append(@, "send")]
             /\ UNCHANGED <<tokens, sinceLast, lockq, sleepLeft, window>>
  /\ UNCHANGED <<coreRest, result>>

\* the answer to an attempt
RestResp(t) ==
  /\ pc[t] = "rsend"
  /\ \E r \in RestOutcomes :
       LET first == attempt[t].n = 1
           seen == [attempt EXCEPT ![t].first = IF first THEN r ELSE @, ![t].last = r]
       IN IF first /\ r.kind = "http" /\ RetryOn(r.status)
          THEN /\ pc' = [pc EXCEPT ![t] = "rsleep"]
               /\ sleepLeft' = [sleepLeft EXCEPT ![t] = RetrySleep]
               /\ attempt' = [seen EXCEPT ![t].hist = Append(@, "sleep")]
               /\ UNCHANGED result
          ELSE /\ pc' = [pc EXCEPT ![t] = "done"]
               /\ attempt' = seen
               /\ result' = [result EXCEPT ![t] =
                                IF r.kind = "http" THEN RestResult(r)
                                ELSE IF first /\ r.kind = "othererr" THEN Raised
                                ELSE RestFailure]
               /\ UNCHANGED sleepLeft
  /\ UNCHANGED <<coreRest, call, tokens, sinceLast, lockq, window>>

\* asyncio.sleep(2) is over: the second acquire() and the second attempt
RetryWake(t) ==
  /\ pc[t] = "rsleep"
  /\ sleepLeft[t] = 0
  /\ IF AcquireBeforeAttempt(2)
     THEN StartAcquire(t, call[t])
     ELSE /\ pc' = [pc EXCEPT ![t] = "rsend"]
          /\ attempt' = [attempt EXCEPT ![t].n = @ + 1, ![t].hist = Append(@, "send")]
          /\ UNCHANGED <<call, tokens, sinceLast, lockq, sleepLeft, window>>
  /\ UNCHANGED <<coreRest, result>>

\* ------------------------------------------------------- search_companies
\* the company ids a category scan can match, in page order (0: a company
\* whose "id" is missing or zero); companies 1 and 2 are in several categories
FoundSeqs == {<<1, 2>>, <<3, 0>>}

\* matched[:count]
Truncate(seq, n) == SubSeq(seq, 1, Min(n, Len(seq)))

\* if cid: the company is kept whatever was seen before
KeepAnyId(seen, cid) == cid # 0

\* if cid and cid not in seen_ids
Keep(seen, cid) == cid # 0 /\ cid \notin seen

\* the loop over the data of one result
MergeOne(matched, ids) ==
  LET F[i \in 0..Len(ids)] ==
        IF i = 0 THEN matched
        ELSE IF Keep(Range(F[i - 1]), ids[i]) THEN Append(F[i - 1], ids[i])
        ELSE F[i - 1]
  IN F[Len(ids)]

\* for r in results: exceptions are skipped
MergeResults(results) ==
  LET F[i \in 0..Len(COMMON_BUSINESS_TYPES)] ==
        IF i = 0 THEN <<>>
        ELSE IF results[i].st = "exc" THEN F[i - 1]
        ELSE MergeOne(F[i - 1], results[i].ids)
  IN F[Len(COMMON_BUSINESS_TYPES)]

\* A company of a page: id (0: the "id" key is missing), hit (the query is in
\* its lower-cased title, only in its public_title, or in neither), mgid (its
\* main_group_id, 0: none), and the booking_domain / booking_url keys (0 and
\* <<>> : absent; n<g>.yclients.com is g, https://n<g>.yclients.com/company/<c>
\* is <<g, c>>).
Companies ==
  [id : {0, 1}, hit : {"title", "public", "none"}, mgid : {0, 7}, domain : {0}, url : {<<>>}]

\* the value of _request for a page: an error map or an empty list (no
\* companies), or up to two companies of a page that is full (200) or not
CompanyPages ==
  [full : BOOLEAN,
   companies : {<<>>} \cup {<<c>> : c \in Companies}
               \cup {<<c, d>> : c \in {x \in Companies : x.hit # "none"}, d \in Companies}]

\* every company is a match
MatchesAny(c) == TRUE

\* if query_lower in title or query_lower in public_title
Matches(c) == c.hit \in {"title", "public"}

\* company["id"] raises KeyError when mgid is set and the key is missing
EnrichRaises(c) == c.mgid # 0 /\ c.id = 0

\* if mgid: booking_domain and booking_url are added
Enrich(c) ==
  IF c.mgid # 0 THEN [c EXCEPT !.domain = c.mgid, !.url = <<c.mgid, c.id>>] ELSE c

\* for company in companies: the matches are enriched and appended
MatchedAfter(matched, companies) ==
  LET F[i \in 0..Len(companies)] ==
        IF i = 0 THEN matched
        ELSE IF Matches(companies[i]) THEN Append(F[i - 1], Enrich(companies[i]))
        ELSE F[i - 1]
  IN F[Len(companies)]

\* --------------------------------------------------------- _parse_attendances
\* The (type, id) keys of the resources "included" can hold: three records,
\* two service items, three staff members.
IncKeys == {"R1", "R2", "R3", "S1", "S2", "A", "B", "C"}

\* relationships.attendance_service_items.data of a record
RecItems(rec) ==
  CASE rec = "R1" -> <<"S1", "S2">> [] rec = "R2" -> <<"S2">> [] OTHER -> <<>>

\* relationships.staff.data of a record: one reference, or a list of them, of
\* which staff_ref[0] is taken
RecStaff(rec) ==
  CASE rec = "R1" -> "A" [] rec = "R2" -> Head(<<"B", "C">>) [] OTHER -> "C"

\* attributes.name of a staff member ("B" has none)
StaffName(st) == CASE st = "A" -> "a" [] st = "C" -> "c" [] OTHER -> ""

\* attributes.datetime: <<day, hour>>, or <<>> when there is none
Datetimes == {<<>>, <<1, 9>>, <<2, 0>>, <<2, 9>>, <<3, 9>>}

\* a top-level attendance: its datetime and relationships.records.data
Attendances ==
  [dt : Datetimes,
   recs : {<<>>, <<"R1">>, <<"R2", "R1">>, <<"R2", "R3">>, <<"R3", "R1">>}]

\* the inputs: up to two attendances, an included table with at most two of
\* the keys missing, and the bounds
AttInputs ==
  [data : {<<>>} \cup {<<a>> : a \in Attendances} \cup {<<a, b>> : a, b \in Attendances},
   inc : {IncKeys \ m : m \in {x \in SUBSET IncKeys : Cardinality(x) <= 2}},
   from : {0, 2}, to : {0, 2}]

\* inc_map.get(key) without the table: every reference resolves
ResolvedAlways(inc, key) == TRUE

\* inc_map.get((type, str(id)))
Resolved(inc, key) == key \in inc

\* date_part = dt_str[:10]
DatePart(dt) == dt[1]

\* the bounds are exclusive
InRangeExclusive(d, from, to) == ~(from # 0 /\ d <= from) /\ ~(to # 0 /\ d >= to)

\* if date_from and date_part < date_from: continue; the same for date_to
InRange(d, from, to) == ~(from # 0 /\ d < from) /\ ~(to # 0 /\ d > to)

\* the service items of the resolved records of an attendance
ServicesOf(inc, recs) ==
  LET Items(rec) == SelectSeq(RecItems(rec), LAMBDA si : Resolved(inc, si))
      F[i \in 0..Len(recs)] ==
        IF i = 0 THEN <<>>
        ELSE IF Resolved(inc, recs[i]) THEN F[i - 1] \o Items(recs[i])
        ELSE F[i - 1]
  IN F[Len(recs)]

\* if staff_ref and not staff_name: the name of the resolved staff member
StaffOf(inc, recs) ==
  LET F[i \in 0..Len(recs)] ==
        IF i = 0 THEN ""
        ELSE IF Resolved(inc, recs[i]) /\ F[i - 1] = "" /\ Resolved(inc, RecStaff(recs[i]))
             THEN StaffName(RecStaff(recs[i]))
        ELSE F[i - 1]
  IN F[Len(recs)]

\* for r in records: the entries of the attendances that have a datetime in
\* the range
ParseAttendances(in) ==
  LET F[i \in 0..Len(in.data)] ==
        IF i = 0 THEN <<>>
        ELSE LET a == in.data[i]
             IN IF a.dt = <<>> \/ ~InRange(DatePart(a.dt), in.from, in.to) THEN F[i - 1]
                ELSE Append(F[i - 1], [datetime |-> a.dt,
                                       services |-> ServicesOf(in.inc, a.recs),
                                       staff |-> StaffOf(in.inc, a.recs)])
  IN F[Len(in.data)]

attRest == <<core, tokens, sinceLast, lockq, sleepLeft, window, attempt, result, opio,
             srch, pg, sms, bp, hd, cf, dv, cb>>

ParseCall ==
  /\ att.phase = "idle"
  /\ \E in \in AttInputs :
       LET out == ParseAttendances(in)
       IN att' = [phase |-> "done", data |-> in.data, inc |-> in.inc, from |-> in.from,
                  to |-> in.to, records |-> out, total |-> Len(out)]
  /\ UNCHANGED attRest

\* the caller has taken the result
ParseReturn ==
  /\ att.phase = "done"
  /\ att' = NoAtt
  /\ UNCHANGED attRest

\* ------------------------------------------------------------- send_sms_code
smsRest == <<core, tokens, sinceLast, lockq, sleepLeft, window, attempt, result, opio,
             srch, pg, att, bp, hd, cf, dv, cb>>

\* a request handed to session.request by _request
Sent(method, path, dom) == [method |-> method, path |-> path, dom |-> dom]

\* the answers to the two requests: an exception, or a status and a body (no
\* security header: send_sms_code does not look at it)
SmsResponses == {r \in OpResponses : r.hdr = NoPayload /\ r.errs = NoPayload}

\* step 2 is reached only when the channel check came back without an error
PostAfterSuccessOnly(v) == v.ty = "dict" /\ ~v.error /\ v.sc = -1

\* channel_resp is logged and not looked at: step 2 follows whatever it holds
PostAfter(v) == TRUE

\* send_sms_code is called: step 1, the GET to the channel endpoint, is sent
SmsStart ==
  /\ sms.phase = "idle"
  /\ \E d \in Domains \ {API} :
       sms' = [NoSms EXCEPT !.phase = "channel", !.dom = d,
                            !.log = <<Sent("GET", "book_code/channel", d)>>]
  /\ UNCHANGED smsRest

\* _request returns the channel answer; step 2, the POST, is sent
SmsChannelResp ==
  /\ sms.phase = "channel"
  /\ \E r \in SmsResponses :
       sms' = IF PostAfter(RequestData(r))
              THEN [sms EXCEPT !.phase = "code", !.chan = r,
                               !.log = Append(@, Sent("POST", "book_code", sms.dom))]
              ELSE [sms EXCEPT !.phase = "done", !.chan = r,
                               !.out = Returned(RequestData(r))]
  /\ UNCHANGED smsRest

\* _request returns the answer to the POST, which send_sms_code returns
SmsCodeResp ==
  /\ sms.phase = "code"
  /\ \E r \in SmsResponses :
       sms' = [sms EXCEPT !.phase = "done", !.code = r, !.out = Returned(RequestData(r))]
  /\ UNCHANGED smsRest

SmsReturn ==
  /\ sms.phase = "done"
  /\ sms' = NoSms
  /\ UNCHANGED smsRest

\* ------------------------------------------------- YClientsConfig, build_headers
confRest == <<core, tokens, sinceLast, lockq, sleepLeft, window, attempt, result, opio,
              srch, pg, att, sms, bp, dv, cb>>

\* the environments: each variable is not set, set to nothing, or set to a value
Environments ==
  [partner : {Unset, "", "P1", "P2"}, user : {Unset, "", "U1", "U2"},
   base : {Unset, "", "https://custom.api.com"}]

\* os.environ.get(name, default)
EnvGet(v, default) == IF v = Unset THEN default ELSE v

\* YClientsConfig.__init__: the three attributes; an empty partner token is
\* logged as a warning and the object is returned
YClientsConfig(env) ==
  LET pt == EnvGet(env.partner, "")
  IN [phase |-> "made", env |-> env, raised |-> FALSE, warned |-> pt = "",
      partner_token |-> pt, user_token |-> EnvGet(env.user, ""),
      base_url |-> EnvGet(env.base, "https://api.yclients.com")]

\* the User part is added whenever a user token is configured
BuildHeadersAlwaysUser(config, needs_user_token) ==
  IF config.user_token # ""
  THEN <<"Bearer", config.partner_token, "User", config.user_token>>
  ELSE <<"Bearer", config.partner_token>>

\* build_headers(config, needs_user_token): headers["Authorization"]
BuildHeaders(config, needs_user_token) ==
  IF needs_user_token /\ config.user_token # ""
  THEN <<"Bearer", config.partner_token, "User", config.user_token>>
  ELSE <<"Bearer", config.partner_token>>

\* config = YClientsConfig() (server.py, conftest.py)
ConfigInit ==
  /\ cf.phase = "idle"
  /\ \E env \in Environments : cf' = YClientsConfig(env)
  /\ UNCHANGED <<hd, confRest>>

\* build_headers(config, needs_user_token) on the configuration object
BuildHeadersCall ==
  /\ cf.phase = "made" /\ ~cf.raised
  /\ hd.phase = "idle"
  /\ \E n \in BOOLEAN :
       hd' = [phase |-> "done", needs |-> n, auth |-> BuildHeaders(cf, n)]
  /\ UNCHANGED <<cf, confRest>>

\* the headers have been used
HeadersReturn ==
  /\ hd.phase = "done"
  /\ hd' = NoHeaders
  /\ UNCHANGED <<cf, confRest>>

\* the process ends
ConfigDrop ==
  /\ cf.phase = "made" /\ hd.phase = "idle"
  /\ cf' = NoConfig
  /\ UNCHANGED <<hd, confRest>>

\* ------------------------------------------------- _build_path, the dispatchers
pathRest == <<core, tokens, sinceLast, lockq, sleepLeft, window, attempt, result, opio,
              srch, pg, att, sms, hd, cf, dv, cb>>

\* a piece of a path template: literal text, or a {placeholder}
Lit(text) == [kind |-> "lit", text |-> text]
Ph(name) == [kind |-> "ph", text |-> name]

\* OPERATIONS: operation name -> path template (the templates of the tools
\* have no, one, two or a repeated placeholder)
OPERATIONS ==
  [auth_auth |-> <<Lit("/api/v1/auth")>>,
   company_get |-> <<Lit("/api/v1/company/"), Ph("company_id")>>,
   client_get |-> <<Lit("/api/v1/client/"), Ph("company_id"), Lit("/x/"), Ph("id")>>,
   twice |-> <<Lit("/api/v1/a/"), Ph("id"), Lit("/b/"), Ph("id")>>]

\* the names a caller may pass
OperationNames == DOMAIN OPERATIONS \cup {"nope"}

\* params.get(ph) of a parameter that is not there
None == <<"None">>

\* str(val) of the values a caller passes, character by character
ParamValues == {<<"1">>, <<"e", "n", "/", "U">>, <<"{", "i", "d", "}">>, <<>>}

\* the params dicts: path parameters and one the templates do not name
ParamDicts == [{"company_id", "id", "extra"} -> ParamValues \cup {None}]

\* the value goes into the path as it is
QuoteNothing(v) == v

\* quote(str(val), safe=""): every character outside the unreserved set
\* becomes %XX
Quote(v) ==
  LET Enc(c) == CASE c = "/" -> <<"%", "2", "F">>
                  [] c = "{" -> <<"%", "7", "B">>
                  [] c = "}" -> <<"%", "7", "D">>
                  [] OTHER -> <<c>>
      F[i \in 0..Len(v)] == IF i = 0 THEN <<>> ELSE F[i - 1] \o Enc(v[i])
  IN F[Len(v)]

\* _build_path(template, params): [missing: the placeholder ValueError names
\* ("" when it returned), path: the path returned, piece by piece]
BuildPath(template, params) ==
  LET F[i \in 0..Len(template)] ==
        IF i = 0 THEN [missing |-> "", path |-> <<>>]
        ELSE LET tk == template[i]
                 acc == F[i - 1]
             IN IF acc.missing # "" THEN acc
                ELSE IF tk.kind = "lit" THEN [acc EXCEPT !.path = Append(@, tk.text)]
                ELSE IF params[tk.text] = None THEN [acc EXCEPT !.missing = tk.text]
                ELSE [acc EXCEPT !.path = @ \o Quote(params[tk.text])]
  IN F[Len(template)]

\* the dispatcher is called: unknown operation, missing path parameter, or the
\* request goes to client.request
DispatchCall ==
  /\ bp.phase = "idle"
  /\ \E op \in OperationNames, p \in ParamDicts :
       IF op \notin DOMAIN OPERATIONS
       THEN bp' = [NoPath EXCEPT !.phase = "done", !.op = op, !.params = p,
                                 !.error = TRUE, !.message = <<"Unknown operation", op>>]
       ELSE LET b == BuildPath(OPERATIONS[op], p)
            IN IF b.missing # ""
               THEN bp' = [NoPath EXCEPT !.phase = "done", !.op = op, !.params = p,
                                         !.error = TRUE,
                                         !.message = <<"Missing required path parameter",
                                                       b.missing>>]
               ELSE bp' = [NoPath EXCEPT !.phase = "sent", !.op = op, !.params = p,
                                         !.sent = TRUE, !.path = b.path]
  /\ UNCHANGED pathRest

\* client.request returns and the dispatcher returns its result
DispatchResp ==
  /\ bp.phase = "sent"
  /\ \E e \in BOOLEAN : bp' = [bp EXCEPT !.phase = "done", !.error = e]
  /\ UNCHANGED pathRest

DispatchReturn ==
  /\ bp.phase = "done"
  /\ bp' = NoPath
  /\ UNCHANGED pathRest

\* ------------------------------------------ the scan protocol over given files
discRest == <<core, tokens, sinceLast, lockq, sleepLeft, window, attempt, result, opio,
              srch, pg, att, sms, bp, hd, cf, cb>>

FxChunks == {"c1", "c2", "c3", "c4"}

\* what a chunk may hold: the fetch raises, the credential, or chunk names (c1
\* and c2 name each other and c3; c3 names c4 or c1; c4 names nothing)
ChunkFiles(c) ==
  {[kind |-> "exc", tok |-> FALSE, imports |-> {}], [kind |-> "js", tok |-> TRUE, imports |-> {}]}
  \cup {[kind |-> "js", tok |-> FALSE, imports |-> i] :
          i \in CASE c = "c1" -> SUBSET {"c2", "c3"}
                  [] c = "c2" -> SUBSET {"c1", "c3"}
                  [] c = "c3" -> {{}, {"c4"}, {"c1"}}
                  [] OTHER -> {{}}}

\* the page and the main bundle: the page holds the credential, or has no
\* main-*.js script tag, or has one and the bundle's fetch raises, or the bundle
\* holds the credential, or it holds chunk names
PageContents ==
  {[html |-> [tok |-> TRUE, main |-> FALSE, chunks |-> <<>>], mainjs |-> NoFixture.mainjs]}
  \cup {[html |-> [tok |-> FALSE, main |-> FALSE, chunks |-> h], mainjs |-> NoFixture.mainjs] :
          h \in {<<>>, <<"c1">>, <<"c1", "c2">>, <<"c2", "c1">>}}
  \cup {[html |-> [tok |-> FALSE, main |-> TRUE, chunks |-> h], mainjs |-> m] :
          h \in {<<>>, <<"c1">>, <<"c1", "c2">>, <<"c2", "c1">>},
          m \in {[kind |-> "exc", tok |-> FALSE, chunks |-> <<>>],
                 [kind |-> "js", tok |-> TRUE, chunks |-> <<>>]}
                \cup {[kind |-> "js", tok |-> FALSE, chunks |-> q] :
                        q \in {<<>>, <<"c1">>, <<"c2">>, <<"c2", "c1">>}}}

\* how the two page paths answer when one of them answers 200 / when none does
PagesOk ==
  {[hint |-> TRUE, company |-> "ok", root |-> "ok"],
   [hint |-> TRUE, company |-> "exc", root |-> "ok"],
   [hint |-> TRUE, company |-> "non200", root |-> "ok"],
   [hint |-> FALSE, company |-> "ok", root |-> "ok"]}

PagesFailing ==
  {pp \in [hint : BOOLEAN, company : {"exc", "non200", "ok"}, root : {"exc", "non200"}] :
     ~(pp.hint /\ pp.company = "ok")}

Fixtures ==
  {[hint |-> pp.hint, company |-> pp.company, root |-> pp.root, html |-> ct.html,
    mainjs |-> ct.mainjs, files |-> f] :
     pp \in PagesOk, ct \in PageContents,
     f \in {g \in [FxChunks -> UNION {ChunkFiles(c) : c \in FxChunks}] :
              \A c \in FxChunks : g[c] \in ChunkFiles(c)}}
  \cup {[NoFixture EXCEPT !.hint = pp.hint, !.company = pp.company, !.root = pp.root,
                          !.html = [tok |-> TRUE, main |-> FALSE, chunks |-> <<>>]] :
          pp \in PagesFailing}

\* the bare root first
HtmlPathsRootFirst(hint) == IF hint THEN <<"root", "company">> ELSE <<"root">>

\* html_paths: /company/{company_id} when there is a hint, then /
HtmlPaths(hint) == IF hint THEN <<"company", "root">> ELSE <<"root">>

\* for html_path in html_paths: the fetches made, and whether a page was loaded
FetchPage(fx) ==
  LET paths == HtmlPaths(fx.hint)
      F[i \in 0..Len(paths)] ==
        IF i = 0 THEN [log |-> <<>>, html |-> FALSE]
        ELSE IF F[i - 1].html THEN F[i - 1]
        ELSE [log |-> Append(F[i - 1].log, paths[i]),
              html |-> (IF paths[i] = "company" THEN fx.company ELSE fx.root) = "ok"]
  IN F[Len(paths)]

\* the loop over a list of chunks with scan_chunk: the fetches made, the chunk
\* that held the credential ("" : none), and seen_transitive
ScanChunks(fx, queue, log, seen) ==
  LET F[i \in 0..Len(queue)] ==
        IF i = 0 THEN [log |-> log, found |-> "", seen |-> seen]
        ELSE LET a == F[i - 1]
                 f == fx.files[queue[i]]
             IN IF a.found # "" THEN a
                ELSE IF f.kind = "exc" THEN [a EXCEPT !.log = Append(@, queue[i])]
                ELSE IF f.tok THEN [a EXCEPT !.log = Append(@, queue[i]), !.found = queue[i]]
                ELSE [a EXCEPT !.log = Append(@, queue[i]), !.seen = @ \cup f.imports]
  IN F[Len(queue)]

\* no final pass
NoTransitive(seen, all) == {}

\* the final pass takes every name seen, tried or not
TransitiveAll(seen, all) == seen

\* seen_transitive - set(all_chunks)
Transitive(seen, all) == seen \ Range(all)

\* the scan of _ensure_partner_token from its first fetch on; order: the order
\* in which the set of the final pass is iterated. [log: the files fetched,
\* cached: the file whose credential was cached ("" : none)]
Discover(fx, order) ==
  LET page == FetchPage(fx)
      main == Append(page.log, "main")
  IN IF ~page.html THEN [log |-> page.log, cached |-> ""]
     ELSE IF fx.html.tok THEN [log |-> page.log, cached |-> "html"]
     ELSE IF ~fx.html.main THEN [log |-> page.log, cached |-> ""]
     ELSE IF fx.mainjs.kind = "exc" THEN [log |-> main, cached |-> ""]
     ELSE IF fx.mainjs.tok THEN [log |-> main, cached |-> "main"]
     ELSE LET all_chunks == Dedup(fx.html.chunks \o fx.mainjs.chunks)
              direct == ScanChunks(fx, all_chunks, main, {})
              pending == Transitive(direct.seen, all_chunks)
              final == ScanChunks(fx, SelectSeq(order, LAMBDA c : c \in pending),
                                  direct.log, direct.seen)
          IN IF direct.found # "" THEN [log |-> direct.log, cached |-> direct.found]
             ELSE [log |-> final.log, cached |-> final.found]

\* _ensure_partner_token(domain, company_id) runs its scan on the tenant's files
DiscoverCall ==
  /\ dv.phase = "idle"
  /\ \E fx \in Fixtures, order \in Perms(FxChunks) :
       LET r == Discover(fx, order)
       IN dv' = [phase |-> "done", fx |-> fx, log |-> r.log, cached |-> r.cached]
  /\ UNCHANGED discRest

\* the caller goes on
DiscoverReturn ==
  /\ dv.phase = "done"
  /\ dv' = NoDiscovery
  /\ UNCHANGED discRest

pagedRest == <<core, tokens, sinceLast, lockq, sleepLeft, window, attempt, result, opio,
               srch, att, sms, bp, hd, cf, dv, cb>>

PagedStart ==
  /\ pg.phase = "idle"
  /\ \E n \in 1..MaxCount, m \in 1..MaxPages :
       pg' = [NoPaged EXCEPT !.phase = "scan", !.limit = n, !.maxp = m, !.page = 1,
                             !.via = "direct", !.scans = 1, !.pages = <<1>>]
  /\ UNCHANGED pagedRest

\* max_pages: int = 20, the depth of the scan with a filter
FilteredMaxPages == 20

\* max_pages=3, the depth of each category scan
CategoryMaxPages == 3

\* the filter is the group only
FilteredByGroupOnly(group_id, business_type_id) == group_id # 0

\* if group_id or business_type_id (0: None)
Filtered(group_id, business_type_id) == group_id # 0 \/ business_type_id # 0

\* search_companies(query, group_id, business_type_id, count=n): with a filter
\* the one scan it awaits, without one the scans it creates for the categories,
\* of which the scan of category i is followed
SearchCompanies ==
  /\ pg.phase = "idle"
  /\ \E n \in 1..MaxCount, group_id \in {0, 1}, business_type_id \in {0, 1} :
       IF Filtered(group_id, business_type_id)
       THEN pg' = [NoPaged EXCEPT !.phase = "scan", !.limit = n, !.page = 1,
                                  !.maxp = FilteredMaxPages, !.via = "filtered",
                                  !.gid = group_id, !.bt = business_type_id,
                                  !.scans = 1, !.pages = <<1>>]
       ELSE \E i \in ScanTasks :
              pg' = [NoPaged EXCEPT !.phase = "scan", !.limit = n, !.page = 1,
                                    !.maxp = CategoryMaxPages, !.via = "category",
                                    !.gid = group_id, !.bt = business_type_id,
                                    !.cat = COMMON_BUSINESS_TYPES[i],
                                    !.scans = Len(COMMON_BUSINESS_TYPES),
                                    !.pages = <<1>>]
  /\ UNCHANGED pagedRest

\* what the loop sees of a page: no companies, fewer than 200, or 200
PageKind(r) == IF r.companies = <<>> THEN "empty" ELSE IF r.full THEN "full" ELSE "short"

\* the page is answered and filtered; the loop goes on or the result is built
PageResp ==
  /\ pg.phase = "scan"
  /\ \E r \in CompanyPages :
       LET matched == MatchedAfter(pg.matched, r.companies)
       IN IF \E i \in 1..Len(r.companies) :
                 Matches(r.companies[i]) /\ EnrichRaises(r.companies[i])
          THEN pg' = [pg EXCEPT !.phase = "done", !.raised = TRUE, !.last = PageKind(r)]
          ELSE IF r.companies # <<>> /\ Len(matched) < pg.limit /\ r.full
                  /\ pg.page < pg.maxp
          THEN pg' = [pg EXCEPT !.page = @ + 1, !.matched = matched,
                                !.pages = Append(@, pg.page + 1), !.last = PageKind(r)]
          ELSE pg' = [pg EXCEPT !.phase = "done", !.matched = matched,
                                !.last = PageKind(r), !.count = Len(matched),
                                !.data = Truncate(matched, pg.limit)]
  /\ UNCHANGED pagedRest

\* the caller has taken the result
PagedReturn ==
  /\ pg.phase = "done"
  /\ pg' = NoPaged
  /\ UNCHANGED pagedRest

\* the variables search_companies leaves alone
searchRest == <<core, tokens, sinceLast, lockq, sleepLeft, window, attempt, result, opio, ext>>

\* search_companies(query, count=n) without group_id and business_type_id: the
\* category scans are created and gathered
SearchStart ==
  /\ srch.phase = "idle"
  /\ \E n \in 1..MaxCount : srch' = [NoSearch EXCEPT !.phase = "scan", !.limit = n]
  /\ UNCHANGED searchRest

\* _search_companies_paginated of category i ends: it raises, or returns the
\* first count of its matches
ScanDone(i) ==
  /\ srch.phase = "scan"
  /\ srch.results[i].st = "pending"
  /\ \/ srch' = [srch EXCEPT !.results[i] = [st |-> "exc", ids |-> <<>>]]
     \/ \E found \in FoundSeqs :
          srch' = [srch EXCEPT !.results[i] =
                                 [st |-> "ok", ids |-> Truncate(found, srch.limit)]]
  /\ UNCHANGED searchRest

\* gather returned: the merge
Merge ==
  /\ srch.phase = "scan"
  /\ \A i \in ScanTasks : srch.results[i].st # "pending"
  /\ LET matched == MergeResults(srch.results)
     IN srch' = [srch EXCEPT !.phase = "done", !.data = Truncate(matched, srch.limit),
                             !.count = Len(matched)]
  /\ UNCHANGED searchRest

\* the caller has taken the result
SearchReturn ==
  /\ srch.phase = "done"
  /\ srch' = NoSearch
  /\ UNCHANGED searchRest

\* ------------------------------------------------------- specifications
\* the suspension points inside _ensure_partner_token: a fetch is in flight
Fetching == {"html", "main", "chunk", "trans"}

\* Credential discovery under concurrency: NTasks tasks call
\* _ensure_partner_token for the shared host or the bootstrap tenant, and
\* _request for the shared host (as the fan-out of search_companies does).
NextCred ==
  \E t \in Tasks :
    \/ CallEnsure(t, CoreDomains)
    \/ CallRequest(t, {API})
    \/ HtmlResp(t)
    \/ MainResp(t)
    \/ ChunkResp(t)
    \/ ApiResp(t)
    \/ Return(t)

Spec == Init /\ [][NextCred]_vars

\* Request headers and user credentials: one task runs the asynchronous
\* operations (_request-based operations, verify_sms_code, user_confirm_*) while
\* set_user_token, which never suspends, is called at any of its suspension points.
AuthTasks == {1}

NextAuth ==
  \/ \E t \in AuthTasks :
       \/ CallRequest(t, CoreDomains)
       \/ CallVerify(t, CoreDomains)
       \/ CallConfirm(t)
       \/ HtmlResp(t)
       \/ MainResp(t)
       \/ ChunkResp(t)
       \/ ApiResp(t)
       \/ ConfirmResp(t)
  \/ \E t \in Tasks :
       \/ SetUserToken(t, CoreDomains)
       \/ Return(t)

SpecAuth == Init /\ [][NextAuth]_vars

\* Sessions: NTasks tasks run _request for the shared host (its discovery uses the
\* bootstrap tenant's session) and close().
NextSess ==
  \E t \in Tasks :
    \/ CallRequest(t, {API})
    \/ HtmlResp(t)
    \/ MainResp(t)
    \/ ChunkResp(t)
    \/ ApiResp(t)
    \/ CloseStart(t)
    \/ CloseStep(t)
    \/ Return(t)

SpecSess == Init /\ [][NextSess]_vars

\* ------------------------------------------------ credential discovery (Spec)
\* C1: once a partner credential is cached for a domain, the cached value of
\* that domain never changes again, in any interleaving of the tasks.
C1_CachedCredentialNeverChanges ==
  [][\A d \in Domains :
       Has(partner_tokens, d) => Get(partner_tokens', d) = Get(partner_tokens, d)]_vars

\* C2 as stated: the second of two _ensure_partner_token calls in sequence for
\* the same domain never has a fetch in flight, whatever the first call left.
C2_SecondCallNeverFetches ==
  \A t \in Tasks :
    (call[t].op = "ensure" /\ call[t].seq \in {"again_cached", "again_uncached"})
      => pc[t] \notin Fetching

\* C2 amended: the second of two calls in sequence for the same domain has no
\* fetch in flight when the first call left a credential cached for the domain.
C2_SecondCallAfterSuccessNeverFetches ==
  \A t \in Tasks :
    (call[t].op = "ensure" /\ call[t].seq = "again_cached") => pc[t] \notin Fetching

\* a second call in sequence has returned, the credential having been discovered
C2_Witness ==
  \E t \in Tasks :
    /\ call[t].op = "ensure" /\ call[t].seq = "again_cached" /\ pc[t] = "done"
    /\ partner_token = ""

\* C4: a call of _ensure_partner_token for a domain with a cached credential
\* returns at once (no fetch, no session) and changes no cache; for a domain
\* without one while a process-level credential is configured it returns at
\* once and changes only that domain's cached partner credential, to the
\* configured value.
C4_EnsureWithoutNetwork ==
  [][\A t \in Tasks :
       (pc[t] = "idle" /\ call'[t].op = "ensure") =>
         LET d == call'[t].dom
         IN /\ Has(partner_tokens, d) =>
                 /\ pc'[t] = "done"
                 /\ UNCHANGED <<partner_tokens, user_tokens, app_configs, sessions,
                                created>>
            /\ (~Has(partner_tokens, d) /\ partner_token # "") =>
                 /\ pc'[t] = "done"
                 /\ UNCHANGED <<user_tokens, app_configs, sessions, created>>
                 /\ Get(partner_tokens', d) = partner_token
                 /\ \A e \in Domains \ {d} :
                      /\ Has(partner_tokens', e) <=> Has(partner_tokens, e)
                      /\ Get(partner_tokens', e) = Get(partner_tokens, e)]_vars

\* with a process-level credential configured, a call has adopted it and a
\* second call in sequence has found it cached
C4_Witness ==
  \E t \in Tasks :
    /\ call[t].op = "ensure" /\ call[t].seq = "again_cached" /\ pc[t] = "done"
    /\ partner_token = GlobalToken
    /\ Get(partner_tokens, call[t].dom) = GlobalToken
    /\ created = <<>>

\* C5: whenever the shared host has a cached credential, it is the process-level
\* credential or the credential cached for a tenant domain.
C5_SharedHostCredentialIsBorrowed ==
  Has(partner_tokens, API) =>
    \/ Get(partner_tokens, API) = partner_token
    \/ \E d \in Domains \ {API} :
         Has(partner_tokens, d) /\ Get(partner_tokens, d) = Get(partner_tokens, API)

\* --------------------------------------- request headers, user credentials
\* (SpecAuth)
\* C3: with a process-level credential configured, the partner credential in
\* the Authorization header of every request in flight is that credential.
C3_ConfiguredCredentialWins ==
  partner_token # "" =>
    \A t \in Tasks :
      pc[t] \in {"resp", "uc"} =>
        /\ Len(req[t].auth) >= 2
        /\ req[t].auth[2] = partner_token

\* a tenant request is in flight under the configured credential
C3_Witness ==
  \E t \in Tasks :
    /\ pc[t] = "resp" /\ req[t].dom = BOOT
    /\ partner_token = GlobalToken
    /\ Has(partner_tokens, BOOT)
    /\ req[t].auth[2] = GlobalToken

\* C6: when the discovery an operation runs ends with no credential cached for
\* its domain, the operation goes on to send its request (nothing is raised),
\* and the request carries no Authorization header.
C6_RequestWithoutCredential ==
  [][\A t \in Tasks :
       (pc[t] \in Fetching /\ pc'[t] \notin Fetching
          /\ ~Has(partner_tokens', call[t].dom)) =>
         /\ pc'[t] = "resp"
         /\ req'[t].dom = call[t].dom
         /\ req'[t].sid = sessions'[call[t].dom]
         /\ req'[t].auth = <<>>]_vars

\* a tenant request is in flight without header after a discovery found nothing
C6_Witness ==
  \E t \in Tasks :
    /\ pc[t] = "resp" /\ req[t].dom = BOOT /\ call[t].op = "request"
    /\ partner_token = "" /\ ~Has(partner_tokens, BOOT)
    /\ req[t].auth = <<>>

\* C7 as stated: the header of every request sent (_request and user_confirm_*)
\* never has an empty partner credential, is absent exactly when no partner
\* credential is available, and else is 'Bearer p' when no user credential is
\* cached for the request's domain and 'Bearer p, User u' when u is.
C7_HeaderShape ==
  [][\A t \in Tasks :
       (pc[t] \notin {"resp", "uc"} /\ pc'[t] \in {"resp", "uc"}) =>
         LET a == req'[t].auth
             d == req'[t].dom
         IN /\ Len(a) \in {0, 2, 4}
            /\ Len(a) >= 2 => (a[1] = "Bearer" /\ a[2] # "")
            /\ (a = <<>>) <=>
                 IF pc'[t] = "resp"
                 THEN ~Has(partner_tokens', d) /\ partner_token = ""
                 ELSE partner_tokens' = <<>> /\ partner_token = ""
            /\ a # <<>> =>
                 IF user_tokens'[d] = NoUser THEN Len(a) = 2
                 ELSE a = <<"Bearer", a[2], "User", user_tokens'[d]>>]_vars

\* C7 amended: as stated for the requests of _request; a user_confirm_* request
\* carries 'Bearer p' or no header, never a user credential.
C7_HeaderShapeByPath ==
  [][\A t \in Tasks :
       (pc[t] \notin {"resp", "uc"} /\ pc'[t] \in {"resp", "uc"}) =>
         LET a == req'[t].auth
             d == req'[t].dom
         IN /\ Len(a) \in {0, 2, 4}
            /\ Len(a) >= 2 => (a[1] = "Bearer" /\ a[2] # "")
            /\ (a = <<>>) <=>
                 IF pc'[t] = "resp"
                 THEN ~Has(partner_tokens', d) /\ partner_token = ""
                 ELSE partner_tokens' = <<>> /\ partner_token = ""
            /\ a # <<>> =>
                 IF pc'[t] = "uc" \/ user_tokens'[d] = NoUser THEN Len(a) = 2
                 ELSE a = <<"Bearer", a[2], "User", user_tokens'[d]>>]_vars

\* a user_confirm_* request is in flight with 'Bearer p' while a user credential
\* is cached for the shared host
C7_Witness ==
  \E t \in Tasks :
    /\ pc[t] = "uc" /\ user_tokens[API] # NoUser
    /\ Len(req[t].auth) = 2

\* C8: the user credential in the header of a request for a domain is one
\* cached for that domain, and a step changes the cached user credential of a
\* domain only when verify_sms_code or set_user_token for that domain ends.
C8_UserCredentialIsolation ==
  [][/\ \A t \in Tasks :
          (pc'[t] = "resp" /\ Len(req'[t].auth) = 4) =>
            req'[t].auth[4][1] = req'[t].dom
     /\ \A d \in Domains :
          user_tokens'[d] # user_tokens[d] =>
            \E t \in Tasks :
              /\ pc[t] # "done" /\ pc'[t] = "done"
              /\ call'[t].op \in {"verify", "set_user_token"}
              /\ call'[t].dom = d]_vars

\* user credentials are cached for two domains while a request for one of them
\* is in flight with a user credential
C8_Witness ==
  \E t \in Tasks :
    /\ pc[t] = "resp" /\ req[t].dom = BOOT /\ Len(req[t].auth) = 4
    /\ user_tokens[API] # NoUser /\ user_tokens[BOOT] # NoUser

\* C10 as stated: when verify_sms_code's response arrives, a user credential it
\* carries is cached for the domain; when it carries none, the user credentials
\* are unchanged and the partner credentials and application descriptors are as
\* they were before the call.
C10_VerifyFrame ==
  [][\A t \in Tasks :
       (pc[t] = "resp" /\ pc'[t] = "done" /\ call[t].op = "verify") =>
         LET d == call[t].dom
             u == ret'[t].utok
         IN /\ u # NoUser => user_tokens' = [user_tokens EXCEPT ![d] = u]
            /\ u = NoUser =>
                 /\ user_tokens' = user_tokens
                 /\ UNCHANGED <<partner_tokens, app_configs>>
                 /\ ~dirty[t]]_vars

\* C10 amended: the step on which the response arrives caches a user credential
\* the response carries for the domain and changes nothing else; when it carries
\* none, it changes no cache.
C10_VerifyResponseFrame ==
  [][\A t \in Tasks :
       (pc[t] = "resp" /\ pc'[t] = "done" /\ call[t].op = "verify") =>
         LET d == call[t].dom
             u == ret'[t].utok
         IN /\ u # NoUser => user_tokens' = [user_tokens EXCEPT ![d] = u]
            /\ u = NoUser => user_tokens' = user_tokens
            /\ UNCHANGED <<partner_tokens, app_configs, sessions, created>>]_vars

\* verify_sms_code has cached the credential its response carried, after the
\* discovery of its request cached a partner credential
C10_Witness ==
  \E t \in Tasks :
    /\ pc[t] = "done" /\ call[t].op = "verify" /\ dirty[t]
    /\ ret[t].utok # NoUser /\ user_tokens[call[t].dom] = ret[t].utok

\* ------------------------------------------------------ sessions (SpecSess)
\* the session objects constructed for domain d
ObjectsOf(d) == {i \in 1..Len(created) : created[i] = d}

NextLimiter ==
  \/ \E t \in Tasks :
       \/ CallAcquire(t)
       \/ LockGranted(t)
       \/ LimiterWake(t)
       \/ Return(t)
  \/ Tick
  \/ OpenWindow

SpecLimiter ==
  /\ Init /\ [][NextLimiter]_vars
  /\ WF_vars(Tick)
  /\ \A t \in Tasks : WF_vars(LockGranted(t)) /\ WF_vars(LimiterWake(t))

\* C17: every call of acquire() returns; a call that finds less than one token
\* after the refill sleeps (1 - tokens) / per_sec, holding the lock, and a call
\* that finds a token returns without sleeping.
C17_AcquireReturns ==
  /\ \A t \in Tasks : (pc[t] \in {"lock", "lsleep"}) ~> (pc[t] = "done")
  /\ [][\A t \in Tasks :
          (pc[t] \in {"idle", "lock"} /\ pc'[t] \in {"lsleep", "done"}) =>
            LET found == Min(PerSec * Scale, tokens + sinceLast)
            IN /\ found < Scale =>
                    /\ pc'[t] = "lsleep"
                    /\ sleepLeft'[t] = Scale - found
                    /\ Head(lockq') = t
               /\ found >= Scale => pc'[t] = "done"]_vars

\* a call found half a token and sleeps for half a token period while another
\* call waits for the lock
C17_Witness ==
  \E t, u \in Tasks :
    /\ pc[t] = "lsleep" /\ sleepLeft[t] = 1 /\ tokens = 1 /\ sinceLast = 0
    /\ pc[u] = "lock"

\* C18: in a window of T seconds at most per_sec + per_sec * T calls of acquire()
\* return.
C18_TokenBucketBound ==
  window.open => window.n * Scale <= PerSec * Scale + window.t

\* ------------------------------------------ the shared host (SpecRest)
\* One task calls YClientsClient.request and, on a BookingClient built with a
\* configured partner token (so that no discovery scan runs), _request towards
\* the shared host and a tenant and the user_confirm_* operations; the other
\* tasks are in acquire() of the same limiter (the acquisitions of concurrent
\* request() calls), while time passes.
NextRest ==
  \/ \E t \in AuthTasks :
       \/ CallRest(t)
       \/ RestResp(t)
       \/ RetryWake(t)
       \/ CallConfirm(t)
       \/ ConfirmResp(t)
       \/ CallRequest(t, {API, TENANT})
       \/ ApiResp(t)
  \/ \E t \in Tasks \ AuthTasks : CallAcquire(t)
  \/ \E t \in Tasks :
       \/ LockGranted(t)
       \/ LimiterWake(t)
       \/ Return(t)
  \/ Tick

InitRest == Init /\ partner_token = GlobalToken

SpecRest == InitRest /\ [][NextRest]_vars

\* a step in which task t puts a request on the wire to api.yclients.com: an
\* attempt of YClientsClient.request, a user_confirm_* call, or _request with
\* the shared host as its domain
SendsToSharedHost(t) ==
  /\ pc'[t] # pc[t]
  /\ \/ pc'[t] \in {"rsend", "uc"}
     \/ pc'[t] = "resp" /\ req'[t].dom = API

\* the limiter was acquired by t's call right before the request went out
AcquiredJustBefore(t) ==
  LET h == attempt'[t].hist
  IN Len(h) >= 2 /\ SubSeq(h, Len(h) - 1, Len(h)) = <<"acquire", "send">>

\* C16 (as stated): every request sent to api.yclients.com, by
\* YClientsClient.request or by a BookingClient operation, is preceded by an
\* acquisition of the rate limiter.
C16_EverySharedHostRequestAcquires ==
  [][\A t \in Tasks : SendsToSharedHost(t) => AcquiredJustBefore(t)]_vars

\* C16 (amended): every attempt of YClientsClient.request is preceded by an
\* acquisition of the client's rate limiter; no step of a BookingClient
\* operation, towards a tenant or towards api.yclients.com, touches the limiter.
C16_OnlyRestRequestsAcquire ==
  [][\A t \in Tasks :
       /\ (pc'[t] # pc[t] /\ pc'[t] = "rsend") => AcquiredJustBefore(t)
       /\ (pc'[t] # pc[t] /\ call'[t].op \in {"request", "confirm"}) =>
            /\ UNCHANGED <<tokens, sinceLast, lockq, sleepLeft>>
            /\ attempt'[t].hist = <<>>]_vars

\* a BookingClient request to api.yclients.com is on the wire, sent without any
\* acquisition, while the bucket is empty and another caller sleeps in acquire()
C16_Witness ==
  \E t, u \in Tasks :
    /\ call[t].op = "request" /\ pc[t] = "resp" /\ req[t].dom = API
    /\ attempt[t].hist = <<>>
    /\ pc[u] = "lsleep" /\ tokens < Scale

\* C19: request() sends at most two attempts; the second one happens exactly
\* when the first response has status 429, after the fixed sleep and then a
\* second acquisition; a second 429 is returned as an error value with status
\* 429; a timeout or connection failure of the first attempt is returned as a
\* failure value and not retried.
C19_AtMostOneRetry ==
  /\ [](\A t \in Tasks : call[t].op = "rest" =>
         LET a == attempt[t]
             got429 == a.first.kind = "http" /\ a.first.status = 429
         IN /\ a.hist \in {<<>>, <<"acquire", "send">>, <<"acquire", "send", "sleep">>,
                            <<"acquire", "send", "sleep", "acquire", "send">>}
            /\ a.n <= 2
            /\ a.n = 2 => got429
            /\ pc[t] = "done" =>
                 /\ a.n = 2 <=> got429
                 /\ (a.n = 2 /\ a.last.kind = "http" /\ a.last.status = 429) =>
                      result[t] = [raised |-> FALSE, ty |-> "dict", error |-> TRUE, sc |-> 429]
                 /\ a.first.kind \in {"timeout", "connfail"} =>
                      a.n = 1 /\ ~result[t].raised /\ result[t].error /\ result[t].sc = 0)
  /\ [][\A t \in Tasks :
          /\ (pc[t] = "rsend" /\ pc'[t] = "rsleep") => sleepLeft'[t] = RetrySleepSec * PerSec * Scale
          /\ (pc[t] = "rsleep" /\ pc'[t] # "rsleep") => sleepLeft[t] = 0]_vars

\* a call whose retry was answered 429 again has returned
C19_Witness ==
  \E t \in Tasks :
    /\ call[t].op = "rest" /\ pc[t] = "done"
    /\ attempt[t].n = 2 /\ attempt[t].last.status = 429 /\ result[t].sc = 429

\* ------------------------------------- what the operations return (SpecOps)
\* The operations of BookingClient are called one after the other, each with
\* any answer to its request.
\* the caller has taken the result
OpReturn ==
  /\ opio # NoOp
  /\ opio' = NoOp
  /\ UNCHANGED opRest

NextOps ==
  \/ OpReturn
  \/ GetCompanyBookingInfo
  \/ SendSmsCode
  \/ VerifySmsCode
  \/ GetUserAttendances
  \/ SearchActivities
  \/ BookActivity
  \/ ListServices
  \/ ListStaff
  \/ ListDates
  \/ ListTimes
  \/ BookRecord
  \/ UserConfirm

SpecOps == Init /\ [][NextOps]_vars

\* book_record was answered with status 412
BookRecord412 ==
  opio.op = "book_record" /\ opio.resp.kind = "http" /\ opio.resp.status = 412

PassedThroughStatus(ops) ==
  /\ opio.op \in ops
  /\ opio.resp.kind = "http" /\ opio.resp.status >= 400
  /\ ~BookRecord412

C13_NeverRaises ==
  opio.op # "" => ~opio.out.raised /\ opio.out.ty = "dict"

\* C14: when the request fails with a timeout or a connection failure the
\* operation returns a failure with error = true and a message, never a success
\* payload.
C14_TransportFailureIsReported ==
  (opio.op # "" /\ opio.resp.kind \in {"timeout", "connfail"}) =>
    /\ ~opio.out.raised
    /\ opio.out.error /\ opio.out.msg
    /\ ~opio.out.success

\* C15: a response with an error status is returned annotated with that
\* status and never as a success payload (book_record's 412 and the operations
\* that raise set aside).
C15_ErrorStatusIsAnnotated ==
  (/\ opio.op # ""
   /\ opio.resp.kind = "http" /\ opio.resp.status >= 400
   /\ ~BookRecord412 /\ ~opio.out.raised) =>
    /\ ~opio.out.success
    /\ opio.out.sc = opio.resp.status

\* ------------------------------------------ the category scan (SpecSearch)
\* search_companies is called with a count of 1..MaxCount; its category scans
\* end in any order.
NextSearch ==
  \/ SearchStart
  \/ \E i \in ScanTasks : ScanDone(i)
  \/ Merge
  \/ SearchReturn

SpecSearch == Init /\ [][NextSearch]_vars

\* the distinct non-zero company ids in the data of the scans that returned
FoundIds ==
  {id \in 1..3 : \E i \in ScanTasks :
                    srch.results[i].st = "ok" /\ id \in Range(srch.results[i].ids)}

\* where an id occurs first, in category order and then in page order
FirstOcc(id) ==
  LET i == CHOOSE i \in ScanTasks :
             /\ srch.results[i].st = "ok" /\ id \in Range(srch.results[i].ids)
             /\ \A j \in 1..(i - 1) : id \notin Range(srch.results[j].ids)
      k == CHOOSE k \in 1..Len(srch.results[i].ids) : srch.results[i].ids[k] = id
  IN 10 * i + k

NoTwoShareAnId(seq) == \A p, q \in 1..Len(seq) : seq[p] = seq[q] => p = q

\* C20 (as stated): all 8 category scans are awaited; when some of them fail
\* the result still holds every match returned by the scans that succeeded,
\* and no two entries share a company id.
C20_MergedResultHoldsEveryMatch ==
  srch.phase = "done" =>
    /\ \A i \in ScanTasks : srch.results[i].st # "pending"
    /\ \A i \in ScanTasks : srch.results[i].st = "ok" =>
         \A k \in 1..Len(srch.results[i].ids) :
           srch.results[i].ids[k] # 0 => srch.results[i].ids[k] \in Range(srch.data)
    /\ NoTwoShareAnId(srch.data)

\* C20 (amended): all 8 category scans are awaited; the result's data holds the
\* first count (the argument) of the distinct companies with a non-zero id
\* returned by the scans that succeeded, in category order, no two entries
\* sharing an id; its "count" is the number of all those companies.
C20_MergedResultHoldsFirstMatches ==
  srch.phase = "done" =>
    /\ Len(COMMON_BUSINESS_TYPES) = 8
    /\ \A i \in ScanTasks : srch.results[i].st # "pending"
    /\ NoTwoShareAnId(srch.data)
    /\ Range(srch.data) \subseteq FoundIds
    /\ srch.count = Cardinality(FoundIds)
    /\ Len(srch.data) = IF srch.count <= srch.limit THEN srch.count ELSE srch.limit
    /\ \A p, q \in 1..Len(srch.data) : p < q => FirstOcc(srch.data[p]) < FirstOcc(srch.data[q])
    /\ \A id \in FoundIds \ Range(srch.data) :
         \A p \in 1..Len(srch.data) : FirstOcc(srch.data[p]) < FirstOcc(id)

\* two scans failed, two others returned the same companies 1 and 2 and one
\* returned company 3: the result holds 1 and 2 once and reports 3 companies
C20_Witness ==
  /\ srch.phase = "done" /\ srch.limit = 2
  /\ Cardinality({i \in ScanTasks : srch.results[i].st = "exc"}) = 2
  /\ Cardinality({i \in ScanTasks : srch.results[i].ids = <<1, 2>>}) >= 2
  /\ \E i \in ScanTasks : srch.results[i].ids = <<3, 0>>
  /\ srch.data = <<1, 2>> /\ srch.count = 3

\* ------------------------------------------ the page scan (SpecPaged)
NextPaged ==
  \/ PagedStart
  \/ SearchCompanies
  \/ PageResp
  \/ PagedReturn

SpecPaged == Init /\ [][NextPaged]_vars

NextAtt ==
  \/ ParseCall
  \/ ParseReturn

SpecAtt == Init /\ [][NextAtt]_vars

\* the positions in "data" of the attendances that are returned: those with a
\* datetime whose day is within the bounds given
KeptIdx ==
  {i \in 1..Len(att.data) :
     /\ att.data[i].dt # <<>>
     /\ att.from # 0 => att.from <= att.data[i].dt[1]
     /\ att.to # 0 => att.data[i].dt[1] <= att.to}

\* the position in "data" of the k-th returned entry
SourceOf(k) ==
  CHOOSE i \in KeptIdx : Cardinality({j \in KeptIdx : j <= i}) = k

\* the (record, item) positions of an attendance both of which resolve
ItemIdx(a) ==
  {p \in (1..Len(a.recs)) \X (1..2) :
     /\ a.recs[p[1]] \in att.inc
     /\ p[2] <= Len(RecItems(a.recs[p[1]]))
     /\ RecItems(a.recs[p[1]])[p[2]] \in att.inc}

\* the positions of the records that resolve and whose staff reference
\* resolves to a staff member with a name
StaffIdx(a) ==
  {i \in 1..Len(a.recs) :
     /\ a.recs[i] \in att.inc
     /\ RecStaff(a.recs[i]) \in att.inc
     /\ StaffName(RecStaff(a.recs[i])) # ""}

C23_DateFilterInclusive ==
  att.phase = "done" =>
    /\ Len(att.records) = Cardinality(KeptIdx)
    /\ \A k \in 1..Len(att.records) : att.records[k].datetime = att.data[SourceOf(k)].dt
    /\ \A i \in 1..Len(att.data) :
         (att.data[i].dt # <<>> /\ att.data[i].dt[1] \in {att.from, att.to}
          /\ (att.from = 0 \/ att.to = 0 \/ att.from <= att.to)) =>
           \E k \in 1..Len(att.records) : att.records[k].datetime = att.data[i].dt

\* both bounds are day 2: the attendance of day 2 is kept, that of day 3 is not
C23_Witness ==
  /\ att.phase = "done" /\ att.from = 2 /\ att.to = 2
  /\ Len(att.data) = 2 /\ att.data[1].dt = <<3, 9>> /\ att.data[2].dt = <<2, 0>>
  /\ Len(att.records) = 1 /\ att.records[1].datetime = <<2, 0>>

\* ------------------------------------------ send_sms_code (SpecSms)
NextSms ==
  \/ SmsStart
  \/ SmsChannelResp
  \/ SmsCodeResp
  \/ SmsReturn

SpecSms == Init /\ [][NextSms]_vars

ConfirmSent(t) == pc[t] = "idle" /\ pc'[t] = "uc"

\* the answer to t's user_confirm_* request arrives and the call returns
ConfirmAnswered(t) == pc[t] = "uc" /\ pc'[t] = "done"

\* C25: a user_confirm_* call keeps no local state: sending its request and
\* taking the answer leave the sessions, the partner credentials, the user
\* credentials and the application descriptors as they were; the call sends
\* one request, to api.yclients.com and never to a tenant subdomain, through
\* no session of the table, with a header that depends on the credentials held
\* at the time of the call only; it can be called again once it has returned.
C25_ConfirmKeepsNoState ==
  [][\A t \in Tasks :
       /\ (ConfirmSent(t) \/ ConfirmAnswered(t)) =>
            /\ sessions' = sessions /\ created' = created
            /\ partner_tokens' = partner_tokens /\ partner_token' = partner_token
            /\ user_tokens' = user_tokens
            /\ app_configs' = app_configs
       /\ ConfirmSent(t) =>
            /\ req[t] = NoReq
            /\ req'[t].dom = API /\ req'[t].dom \notin Domains \ {API}
            /\ req'[t].sid = 0
            /\ req'[t].auth =
                 IF partner_token # "" THEN <<"Bearer", partner_token>>
                 ELSE IF \E d \in Domains : Has(partner_tokens, d)
                 THEN <<"Bearer", FirstValue(partner_tokens)>>
                 ELSE <<>>
       /\ ConfirmAnswered(t) => req'[t] = NoReq
       /\ (pc[t] = "uc" /\ pc'[t] # "uc") => ConfirmAnswered(t)]_vars

\* a user_confirm_* request is on the wire while a session, a cached partner
\* credential and a cached user credential exist
C25_Witness ==
  \E t \in Tasks :
    /\ pc[t] = "uc" /\ req[t].dom = API /\ req[t].auth # <<>>
    /\ \E d \in Domains : sessions[d] # 0 /\ Has(partner_tokens, d)
    /\ \E d \in Domains : user_tokens[d] # NoUser

\* task t puts the API request of an operation on the wire in this step
ApiSent(t) == pc[t] # pc'[t] /\ pc'[t] \in {"resp", "uc"}

\* the credential-ensuring step has run in t's call when the request goes out:
\* a credential is cached for the request's domain, or the discovery of this
\* call has just ended
EnsuredBefore(t) ==
  \/ Has(partner_tokens', req'[t].dom)
  \/ pc[t] \in Fetching

\* C26 (as stated): every operation that issues HTTP calls, the user_confirm_*
\* operations included, runs _ensure_partner_token before its first API
\* request is sent.
C26_EveryOperationEnsuresFirst ==
  [][\A t \in Tasks : ApiSent(t) => EnsuredBefore(t)]_vars

\* C26 (amended): every operation that sends through _request runs
\* _ensure_partner_token before the request is sent; a user_confirm_* call
\* sends at once, without the ensuring step: it starts no discovery and caches
\* nothing.
C26_RequestOperationsEnsureFirst ==
  [][\A t \in Tasks :
       /\ (ApiSent(t) /\ pc'[t] = "resp") => EnsuredBefore(t)
       /\ (ApiSent(t) /\ pc'[t] = "uc") =>
            /\ pc[t] = "idle"
            /\ scan' = scan
            /\ partner_tokens' = partner_tokens]_vars

\* discovery found nothing, the request of a _request operation is on the
\* wire without a credential
C26_Witness ==
  \E t \in Tasks :
    /\ pc[t] = "resp" /\ call[t].op = "request"
    /\ ~Has(partner_tokens, req[t].dom)
    /\ req[t].auth = <<>>

\* ------------------------------------------ configuration and headers (SpecConf)
NextConf ==
  \/ ConfigInit
  \/ BuildHeadersCall
  \/ HeadersReturn
  \/ ConfigDrop

SpecConf == Init /\ [][NextConf]_vars

\* C28: the Authorization header of build_headers starts with
\* 'Bearer <partner_token>'; it has the ', User <user_token>' part exactly when
\* needs_user_token is true and the configured user token is non-empty, and is
\* exactly 'Bearer <partner_token>' otherwise.
C28_AuthorizationHeader ==
  hd.phase = "done" =>
    /\ Len(hd.auth) >= 2
    /\ SubSeq(hd.auth, 1, 2) = <<"Bearer", cf.partner_token>>
    /\ (hd.needs /\ cf.user_token # "") <=>
         (Len(hd.auth) = 4 /\ hd.auth[3] = "User" /\ hd.auth[4] = cf.user_token)
    /\ ~(hd.needs /\ cf.user_token # "") => Len(hd.auth) = 2

\* a user token is configured, needs_user_token is false: the header is the
\* partner part alone
C28_Witness ==
  /\ hd.phase = "done" /\ ~hd.needs
  /\ cf.user_token = "U1" /\ cf.partner_token = "P1"
  /\ hd.auth = <<"Bearer", "P1">>

\* C29: constructing YClientsConfig without YCLIENTS_PARTNER_TOKEN in the
\* environment fails (RuntimeError), and no configuration object has an empty
\* partner token.
C29_PartnerTokenRequired ==
  cf.phase = "made" =>
    /\ cf.env.partner = Unset => cf.raised
    /\ ~cf.raised => cf.partner_token # ""

\* ------------------------------------------ the dispatchers (SpecPath)
NextPath ==
  \/ DispatchCall
  \/ DispatchResp
  \/ DispatchReturn

SpecPath == Init /\ [][NextPath]_vars

\* the placeholders of the template of the call, in template order, whose
\* parameter is absent
MissingOf(template, params) ==
  SelectSeq(template, LAMBDA tk : tk.kind = "ph" /\ params[tk.text] = None)

\* the path read back: %2F, %7B and %7D decoded
Unquote(path) ==
  LET Dec(a, b) == CASE <<a, b>> = <<"2", "F">> -> "/"
                     [] <<a, b>> = <<"7", "B">> -> "{"
                     [] OTHER -> "}"
      F[i \in 0..Len(path)] ==
        IF i = 0 THEN <<>>
        ELSE IF i >= 3 /\ path[i - 2] = "%"
             THEN Append(SubSeq(F[i - 1], 1, Len(F[i - 1]) - 2), Dec(path[i - 1], path[i]))
             ELSE Append(F[i - 1], path[i])
  IN F[Len(path)]

\* the template with the caller's values written in as they are
RawFill(template, params) ==
  LET F[i \in 0..Len(template)] ==
        IF i = 0 THEN <<>>
        ELSE IF template[i].kind = "lit" THEN Append(F[i - 1], template[i].text)
        ELSE F[i - 1] \o params[template[i].text]
  IN F[Len(template)]

\* C27: _build_path returns the template with every placeholder replaced by
\* the URL-encoded value (no brace remains, a '/' of a value is encoded,
\* parameters the template does not name are ignored), or fails naming the
\* first placeholder whose parameter is absent; the dispatcher returns that
\* failure as an error value naming the parameter and sends no request.
C27_PathFilledOrMissingNamed ==
  (bp.phase \in {"sent", "done"} /\ bp.op \in DOMAIN OPERATIONS) =>
    LET template == OPERATIONS[bp.op]
        missing == MissingOf(template, bp.params)
    IN IF missing # <<>>
       THEN /\ ~bp.sent /\ bp.path = <<>>
            /\ bp.error
            /\ bp.message = <<"Missing required path parameter", missing[1].text>>
       ELSE /\ bp.sent
            /\ \A i \in 1..Len(bp.path) : bp.path[i] \notin {"/", "{", "}"}
            /\ Unquote(bp.path) = RawFill(template, bp.params)
            /\ bp.path = BuildPath(template, [bp.params EXCEPT !["extra"] = None]).path

\* the value en/U goes into the path as en%2FU, the extra parameter is ignored
C27_Witness ==
  /\ bp.phase = "sent" /\ bp.op = "company_get"
  /\ bp.params["company_id"] = <<"e", "n", "/", "U">>
  /\ bp.params["extra"] = <<"1">>
  /\ bp.path = <<"/api/v1/company/", "e", "n", "%", "2", "F", "U">>

\* ------------------------------------------ the scan order (SpecScan)
\* One task calls _ensure_partner_token for a tenant whose page and main bundle
\* name two chunks each; no credential is configured.
NextScan ==
  \E t \in AuthTasks :
    \/ CallEnsure(t, {TENANT, BOOT})
    \/ HtmlResp(t)
    \/ MainResp(t)
    \/ ChunkResp(t)
    \/ Return(t)

InitScan == InitWith(WideSite) /\ partner_token = ""

SpecScan == InitScan /\ [][NextScan]_vars

\* the position of a source in the scan
Rank(p) == CASE p = "html" -> 1 [] p = "main" -> 2 [] p = "chunk" -> 3 [] OTHER -> 4

NoRepeat(q) == \A i, j \in 1..Len(q) : i # j => q[i] # q[j]

\* C30: without a configured and without a cached credential the sources are
\* fetched in the order page HTML, main bundle, direct chunks (page's first,
\* without duplicates, one after the other), transitive chunks; the step that
\* caches a credential ends the scan (no further fetch), the credential cached
\* is one a source held, and a step after which a fetch is in flight has
\* cached nothing.
C30_ScanOrderStopsAtFirstMatch ==
  [][\A t \in AuthTasks :
       LET d == scan[t].dom
       IN /\ (pc[t] = "idle" /\ pc'[t] \in Fetching) =>
               /\ pc'[t] = "html"
               /\ ~Has(partner_tokens, scan'[t].dom) /\ partner_token = ""
          /\ pc[t] \in Fetching =>
               /\ pc'[t] \in Fetching =>
                    /\ Rank(pc'[t]) \in {Rank(pc[t]), Rank(pc[t]) + 1}
                    /\ partner_tokens' = partner_tokens
                    /\ scan'[t].dom = d
               /\ partner_tokens' # partner_tokens =>
                    /\ pc'[t] \notin Fetching /\ scan'[t] = NoScan
                    /\ ~Has(partner_tokens, d)
                    /\ Get(partner_tokens', d) \in ScanTokens
               /\ (pc[t] = "main" /\ pc'[t] = "chunk") =>
                    /\ NoRepeat(scan'[t].queue)
                    /\ Len(scan'[t].queue) >= Len(scan[t].hchunks)
                    /\ SubSeq(scan'[t].queue, 1, Len(scan[t].hchunks)) = scan[t].hchunks
               /\ (pc[t] \in {"chunk", "trans"} /\ pc'[t] = pc[t]) =>
                    scan'[t].queue = Tail(scan[t].queue)
               /\ (pc[t] = "chunk" /\ pc'[t] = "trans") =>
                    /\ Len(scan[t].queue) = 1
                    /\ NoRepeat(scan'[t].queue)
                    /\ Range(scan'[t].queue) \cap scan[t].tried = {}]_vars

\* the page's two chunks and the bundle's were fetched without a match, a
\* transitive chunk is being fetched, and nothing is cached for the tenant
C30_Witness ==
  \E t \in AuthTasks :
    /\ pc[t] = "trans" /\ scan[t].dom = TENANT
    /\ scan[t].queue = <<"c3">>
    /\ ~Has(partner_tokens, TENANT)

\* ------------------------------------------ the scan over given files (SpecDisc)
NextDisc ==
  \/ DiscoverCall
  \/ DiscoverReturn

SpecDisc == Init /\ [][NextDisc]_vars

\* the direct candidates of the files: the chunks the page or the main bundle names
DirectOf(fx) == Range(fx.html.chunks) \cup Range(fx.mainjs.chunks)

\* the chunks a fetched direct candidate names that are no direct candidates
ImportsOf(fx) ==
  UNION {fx.files[c].imports : c \in {x \in DirectOf(fx) : fx.files[x].kind = "js"}}
  \ DirectOf(fx)

PageLoaded(fx) ==
  \/ fx.root = "ok"
  \/ fx.hint /\ fx.company = "ok"

Fetched == Range(dv.log)

\* C32: once a page was fetched with status 200, discovery ends without a
\* credential only after the main bundle, every direct candidate of both
\* sources and every untried transitive import were scanned; in particular the
\* chunks the page names are scanned whenever neither the page nor a main
\* bundle gave a match.
C32_GivesUpOnlyAfterAllSteps ==
  (dv.phase = "done" /\ PageLoaded(dv.fx) /\ dv.cached = "") =>
    /\ ~dv.fx.html.tok
    /\ Range(dv.fx.html.chunks) \subseteq Fetched
    /\ dv.fx.html.main =>
         /\ "main" \in Fetched
         /\ dv.fx.mainjs.kind = "js" =>
              /\ ~dv.fx.mainjs.tok
              /\ DirectOf(dv.fx) \subseteq Fetched
              /\ ImportsOf(dv.fx) \subseteq Fetched

\* C33: the page is fetched at /company/{id} first when there is a hint and at
\* / second; the first answer with status 200 ends the page fetches; when no
\* path answers 200 nothing is cached and no bundle or chunk is fetched.
C33_PagePathsInOrder ==
  dv.phase = "done" =>
    /\ Len(dv.log) >= 1
    /\ dv.log[1] = IF dv.fx.hint THEN "company" ELSE "root"
    /\ ~dv.fx.hint => "company" \notin Fetched
    /\ (dv.fx.hint /\ dv.fx.company = "ok") => "root" \notin Fetched
    /\ (dv.fx.hint /\ dv.fx.company # "ok") => (Len(dv.log) >= 2 /\ dv.log[2] = "root")
    /\ \A i, j \in 1..Len(dv.log) :
         (dv.log[i] \in {"company", "root"} /\ dv.log[j] \notin {"company", "root"}) => i < j
    /\ ~PageLoaded(dv.fx) =>
         /\ dv.cached = ""
         /\ Fetched \subseteq {"company", "root"}

\* /company/{id} answers 403, / answers 200: both are fetched, in this order,
\* and the scan goes on to the main bundle
C33_Witness ==
  /\ dv.phase = "done"
  /\ dv.fx.hint /\ dv.fx.company = "non200" /\ dv.fx.root = "ok"
  /\ Len(dv.log) >= 3
  /\ SubSeq(dv.log, 1, 3) = <<"company", "root", "main">>

\* C34: a scan ends after a bounded number of fetches and goes one transitive
\* hop deep: it fetches at most the two page paths, the main bundle, the direct
\* candidates and the chunks named inside fetched direct candidates, no file
\* twice (also when chunks name each other); a chunk named only inside a
\* transitive chunk is not fetched; the number of fetches is at most
\* 3 + |direct candidates| + |their imports|.
C34_OneHopEachChunkOnce ==
  dv.phase = "done" =>
    /\ NoRepeat(dv.log)
    /\ Fetched \subseteq {"company", "root", "main"} \cup DirectOf(dv.fx) \cup ImportsOf(dv.fx)
    /\ Len(dv.log) <= 3 + Cardinality(DirectOf(dv.fx)) + Cardinality(ImportsOf(dv.fx))

\* c1 is the direct candidate, it names c2; c2 names c1 back and c3; nothing
\* holds a token: c1 and c2 are fetched once each and c3 is not fetched
C34_Witness ==
  /\ dv.phase = "done" /\ dv.cached = ""
  /\ DirectOf(dv.fx) = {"c1"}
  /\ dv.fx.files["c1"].imports = {"c2"}
  /\ dv.fx.files["c2"].imports = {"c1", "c3"}
  /\ dv.fx.files["c2"].kind = "js" /\ ~dv.fx.files["c2"].tok
  /\ dv.log = <<"company", "main", "c1", "c2">>

C36_ScanSequentialAndBounded ==
  [][/\ (pg'.phase # "idle" /\ pg'.via # "direct") =>
          /\ (pg'.gid # 0 \/ pg'.bt # 0) => pg'.via = "filtered" /\ pg'.scans = 1
          /\ pg'.via = "filtered" => pg'.maxp = FilteredMaxPages
          /\ pg'.via = "category" => pg'.maxp = CategoryMaxPages
     /\ pg'.phase # "idle" =>
          /\ Len(pg'.pages) <= pg'.maxp
          /\ pg'.pages = [i \in 1..Len(pg'.pages) |-> i]
     /\ pg.phase = "scan" =>
          /\ pg'.phase \in {"scan", "done"}
          /\ pg'.phase = "scan" <=>
                /\ ~pg'.raised /\ pg'.last = "full"
                /\ Len(pg'.matched) < pg.limit
                /\ Len(pg.pages) < pg.maxp
          /\ pg'.phase = "scan" => pg'.pages = Append(pg.pages, Len(pg.pages) + 1)
          /\ pg'.phase = "done" => pg'.pages = pg.pages
    ]_vars

\* a scan with a filter was cut off by its depth: twenty full pages were
\* requested and the matches are still fewer than count
C36_Witness ==
  /\ pg.phase = "done" /\ pg.via = "filtered" /\ pg.bt # 0 /\ pg.gid = 0
  /\ Len(pg.pages) = FilteredMaxPages /\ pg.last = "full"
  /\ Len(pg.matched) < pg.limit

\* C37: at most one discovery scan per domain is in flight: no two tasks are
\* suspended in a page or bundle fetch of _ensure_partner_token for the same
\* domain.
C37_OneScanPerDomain ==
  \A t, u \in Tasks :
    (t # u /\ pc[t] \in Fetching /\ pc[u] \in Fetching) => scan[t].dom # scan[u].dom

\* the tasks inside the critical section of acquire() across a suspension
InAcquire == {t \in Tasks : pc[t] = "lsleep"}

\* the tasks waiting for the lock of the limiter
Waiting == {t \in Tasks : pc[t] = "lock"}

\* C38: whenever the lock is free the token count is between 0 and per_sec;
\* the lock is held over the sleep of acquire(), so at most one task is inside
\* the critical section and nothing else touches the count meanwhile; an
\* acquire() that returns without sleeping leaves the refilled count lowered
\* by exactly one token, one that slept leaves it at 0; the waiters are
\* released one at a time, in the order they came.
C38_LimiterStateAndLock ==
  [][/\ lockq' = <<>> => (0 <= tokens' /\ tokens' <= PerSec * Scale)
     /\ Cardinality(InAcquire') <= 1
     /\ \A t \in InAcquire' : lockq' # <<>> /\ Head(lockq') = t
     /\ \A t \in Waiting' :
          Cardinality({i \in 1..Len(lockq') : lockq'[i] = t}) = 1
     /\ \A t \in InAcquire :
          t \in InAcquire' =>
            /\ tokens' = tokens
            /\ lockq' = lockq \/ \E u \in Tasks \ {t} : lockq' = Append(lockq, u)
            /\ \A u \in Tasks \ {t} : pc'[u] \in {"lsleep", "done"} => pc'[u] = pc[u]
     /\ \A t \in Tasks :
          /\ (pc[t] \in {"idle", "lock"} /\ pc'[t] = "done") =>
                /\ tokens' + Scale = Min(PerSec * Scale, tokens + sinceLast)
                /\ InAcquire = {}
          /\ (pc[t] = "lsleep" /\ pc'[t] = "done") => tokens' = 0
     /\ Cardinality(Waiting \ Waiting') <= 1
     /\ \A t \in Waiting \ Waiting' : Head(lockq) = t
    ]_vars

\* a call that found no whole token has slept its time out and still holds the
\* lock, with the other call waiting for it
C38_Witness ==
  \E t, u \in Tasks :
    /\ pc[t] = "lsleep" /\ sleepLeft[t] = 0 /\ tokens < Scale
    /\ pc[u] = "lock" /\ lockq = <<t, u>>

\* ------------------------------------------ user credentials (SpecUser)
\* One task runs the asynchronous operations of SpecAuth; set_user_token,
\* get_user_token and close are called by a second task, between its
\* operations and at any of its suspension points.
UserTasks == {2}

NextUser ==
  \/ \E t \in AuthTasks :
       \/ CallRequest(t, CoreDomains)
       \/ CallVerify(t, CoreDomains)
       \/ CallConfirm(t)
       \/ HtmlResp(t)
       \/ MainResp(t)
       \/ ChunkResp(t)
       \/ ApiResp(t)
       \/ ConfirmResp(t)
  \/ \E t \in UserTasks :
       \/ SetUserToken(t, CoreDomains)
       \/ GetUserToken(t, CoreDomains)
       \/ CloseStart(t)
       \/ CloseStep(t)
  \/ \E t \in Tasks : Return(t)

SpecUser == Init /\ [][NextUser]_vars

\* task t receives the response of verify_sms_code for domain d
VerifyEnds(t, d) ==
  pc[t] = "resp" /\ pc'[t] = "done" /\ call[t].op = "verify" /\ call[t].dom = d

\* task t runs set_user_token for domain d
SetEnds(t, d) ==
  pc[t] = "idle" /\ pc'[t] = "done" /\ call'[t].op = "set_user_token" /\ call'[t].dom = d

\* C39: the cached user credential of a domain changes only when
\* verify_sms_code for that domain receives a response with a user credential
\* (to that credential) or when set_user_token for that domain runs (to its
\* argument); the steps of every other operation leave all cached user
\* credentials as they are; get_user_token(D) returns the value cached for D,
\* which is nothing as long as none was stored.
C39_UserCredentialFrame ==
  [][/\ \A d \in Domains :
          user_tokens'[d] # user_tokens[d] =>
            \E t \in Tasks :
              \/ /\ VerifyEnds(t, d)
                 /\ ret'[t].utok # NoUser /\ user_tokens'[d] = ret'[t].utok
              \/ SetEnds(t, d) /\ user_tokens'[d] \in UserTokensOf(d)
     /\ \A t \in Tasks, d \in Domains :
          /\ (VerifyEnds(t, d) /\ ~ret'[t].raised /\ ret'[t].utok # NoUser) =>
                user_tokens'[d] = ret'[t].utok
          /\ SetEnds(t, d) => user_tokens'[d] # NoUser
          /\ (VerifyEnds(t, d) \/ SetEnds(t, d)) =>
                \A e \in Domains \ {d} : user_tokens'[e] = user_tokens[e]
     /\ \A t \in Tasks :
          (pc[t] = "idle" /\ pc'[t] = "done" /\ call'[t].op = "get_user_token") =>
            /\ ret'[t].utok = user_tokens[call'[t].dom]
            /\ user_tokens' = user_tokens
     /\ (\A d \in Domains : user_tokens[d] = NoUser) =>
          \A t \in Tasks :
            (pc'[t] = "done" /\ call'[t].op = "get_user_token" /\ pc[t] = "idle") =>
              ret'[t].utok = NoUser
    ]_vars

\* get_user_token has returned the credential cached for the tenant, which
\* differs from the one cached for the shared host, after a close
C39_Witness ==
  \E t \in Tasks :
    /\ pc[t] = "done" /\ call[t].op = "get_user_token" /\ call[t].dom = BOOT
    /\ ret[t].utok # NoUser /\ ret[t].utok = user_tokens[BOOT]
    /\ user_tokens[API] # NoUser /\ closeCalled

\* ------------------------------------ yclients_client_booking (SpecBook)
bookRest == <<core, tokens, sinceLast, lockq, sleepLeft, window, attempt, result, opio,
              srch, pg, att, sms, bp, hd, cf, dv>>

\* the operations answered before the domain is looked at
DirectOps ==
  {"search_companies", "get_company_booking_info", "user_confirm_start_check",
   "user_confirm_check_captcha", "user_confirm_check_code"}

\* elif operation in (...): "All remaining operations require domain"
DomainOps ==
  {"send_sms_code", "verify_sms_code", "get_auth_status", "set_user_token",
   "get_user_attendances", "list_services", "list_staff", "list_dates", "list_times",
   "book_record", "search_activities", "book_activity"}

\* the operation names a caller may pass: the known ones and two others
BookingOperations == DirectOps \cup DomainOps \cup {"close", ""}

\* the keys of params the dispatcher looks up before it calls BookingClient
BookingParams ==
  {"query", "company_id", "token", "captcha_token", "code", "domain", "phone",
   "user_token", "staff_id", "date", "service_ids", "datetime", "fullname",
   "activity_id"}

\* the sets of keys given with a truthy value: at most two of them are missing
\* (absent, None, "", 0 or [])
PresentSets ==
  {BookingParams \ m : m \in {x \in SUBSET BookingParams : Cardinality(x) <= 2}}

\* only the authentication operations have a branch
HandlesAuthOnly(op) ==
  op \in {"send_sms_code", "verify_sms_code", "get_auth_status", "set_user_token"}

\* the `if op == ...` branches of _dispatch_domain_op
Handles(op) ==
  op \in {"send_sms_code", "verify_sms_code", "get_auth_status", "set_user_token",
          "get_user_attendances", "list_services", "list_staff", "list_dates",
          "list_times", "book_record", "search_activities", "book_activity"}

\* the keys each branch tests before its call (`if not ...: return error`)
Required(op) ==
  CASE op = "search_companies" -> {"query"}
    [] op = "get_company_booking_info" -> {"company_id"}
    [] op = "user_confirm_start_check" -> {"token"}
    [] op = "user_confirm_check_captcha" -> {"token", "captcha_token"}
    [] op = "user_confirm_check_code" -> {"token", "code"}
    [] op = "send_sms_code" -> {"company_id", "phone"}
    [] op = "verify_sms_code" -> {"company_id", "phone", "code"}
    [] op = "get_auth_status" -> {}
    [] op = "set_user_token" -> {"user_token"}
    [] op \in {"get_user_attendances", "list_services", "list_staff", "list_dates"} ->
         {"company_id"}
    [] op = "list_times" -> {"company_id", "staff_id", "date"}
    [] op = "book_record" ->
         {"company_id", "staff_id", "service_ids", "datetime", "phone", "fullname"}
    [] op = "search_activities" -> {"company_id", "date"}
    [] op = "book_activity" -> {"company_id", "activity_id", "phone", "fullname"}
    [] OTHER -> {}

\* the required keys a branch passes through int() in the arguments of its call
Converted(op) ==
  Required(op) \cap {"company_id", "staff_id", "service_ids", "activity_id"}

\* the BookingClient methods a branch calls, in order
MethodsOf(op) ==
  CASE op = "verify_sms_code" -> <<"verify_sms_code", "get_user_token">>
    [] op = "get_auth_status" -> <<"get_user_token">>
    [] OTHER -> <<op>>

\* the error value returned without a call
Rejected(c, kind) == [c EXCEPT !.phase = "done", !.error = TRUE, !.message = kind]

\* a branch: the test of its required keys, the conversions, the call
Branch(c) ==
  IF ~(Required(c.op) \subseteq c.present) THEN Rejected(c, "Required param")
  ELSE IF Converted(c.op) # {} /\ ~c.numeric
  THEN [c EXCEPT !.phase = "done", !.raised = TRUE]
  ELSE [c EXCEPT !.phase = "called", !.calls = MethodsOf(c.op)]

\* _dispatch_domain_op(bc, op, domain, p)
DispatchDomainOp(c) ==
  IF Handles(c.op) THEN Branch(c) ELSE Rejected(c, "Unhandled operation")

\* yclients_client_booking(operation, params) up to its first await
BookingCall ==
  /\ cb.phase = "idle"
  /\ \E op \in BookingOperations, present \in PresentSets, numeric \in BOOLEAN :
       LET c == [NoBooking EXCEPT !.op = op, !.present = present, !.numeric = numeric]
       IN cb' = IF op \in DirectOps THEN Branch(c)
                ELSE IF op \in DomainOps
                THEN IF "domain" \notin present THEN Rejected(c, "Required param: domain")
                     ELSE DispatchDomainOp(c)
                ELSE Rejected(c, "Unknown operation")
  /\ UNCHANGED bookRest

\* the BookingClient method returned: its value, with or without "error",
\* is handed on (set_user_token and get_auth_status build their own)
BookingResp ==
  /\ cb.phase = "called"
  /\ \E e \in BOOLEAN :
       cb' = [cb EXCEPT !.phase = "done",
                        !.error = e /\ cb.op \notin {"set_user_token", "get_auth_status"},
                        !.message = IF e /\ cb.op \notin {"set_user_token", "get_auth_status"}
                                    THEN "api" ELSE ""]
  /\ UNCHANGED bookRest

\* the tool call is over
BookingReturn ==
  /\ cb.phase = "done"
  /\ cb' = NoBooking
  /\ UNCHANGED bookRest

NextBook ==
  \/ BookingCall
  \/ BookingResp
  \/ BookingReturn

SpecBook == Init /\ [][NextBook]_vars

\* C40: a call with an unknown operation name, with a domain-scoped operation
\* and no domain, or with a required parameter of the operation missing ends
\* with an error value that has a message, and no BookingClient method was
\* called (so no request was sent and no state changed); no call ends with
\* the "Unhandled operation" message.
C40_RejectedBeforeAnyEffect ==
  /\ cb.message # "Unhandled operation"
  /\ (/\ cb.phase # "idle"
      /\ \/ cb.op \notin DirectOps \cup DomainOps
         \/ cb.op \in DomainOps /\ "domain" \notin cb.present
         \/ Required(cb.op) \ cb.present # {})
     => /\ cb.phase = "done" /\ cb.error /\ ~cb.raised
        /\ cb.message \in {"Unknown operation", "Required param: domain", "Required param"}
        /\ cb.calls = <<>>
  /\ (cb.phase # "idle" /\ cb.op \in DomainOps /\ "domain" \in cb.present
      /\ Required(cb.op) \subseteq cb.present /\ cb.numeric)
     => cb.calls # <<>> /\ cb.calls[1] \in {cb.op, "get_user_token"}

\* book_activity, the last branch of _dispatch_domain_op, was rejected for a
\* missing activity_id although the domain was given
C40_Witness ==
  /\ cb.phase = "done" /\ cb.op = "book_activity"
  /\ "domain" \in cb.present /\ "activity_id" \notin cb.present
  /\ cb.error /\ cb.message = "Required param" /\ cb.calls = <<>>
====
